---- MODULE Spec2Model ----
(***************************************************************************)
(* Model of the IBP-AI forecast / supply-plan / scenario engine.           *)
(*                                                                         *)
(* Floating point values are modelled as exact rationals [n, d] in lowest  *)
(* terms (d > 0); +infinity is [n |-> 1, d |-> 0].  Rounding of IEEE       *)
(* doubles is not modelled.  numpy.sin is tabulated to 2 decimal places.    *)
(* The three fitting libraries (statsmodels ARIMA, Prophet, XGBoost) are   *)
(* outside the repository: what a fit returns is the oracle `lib`.         *)
(***************************************************************************)
EXTENDS Integers, Sequences, FiniteSets, TLC

VARIABLES
    sales,      \* rows returned by load_sales_with_signals()
    lib,        \* outcome of the external fitting libraries
    forecasts,  \* store.forecasts, a dict in insertion order
    plans,      \* store.plans, a dict in insertion order
    scenarios,  \* store.scenarios, a dict in insertion order
    uuids,      \* number of uuid.uuid4() calls made so far
    call,       \* the request or function call being made
    ret         \* its outcome: [status, body], body = <<>> or <<value>>

vars == <<sales, lib, forecasts, plans, scenarios, uuids, call, ret>>

None == "None"

-----------------------------------------------------------------------------
(* Bounds *)

MaxSkus == 2        \* longest sku_list of a request
MaxDay == 2         \* request dates range over 1..MaxDay
MaxShocks == 2      \* longest list of shocks of a scenario request
MaxUuids == 4       \* artifacts created in one session
MaxRequests == 3    \* requests in flight at the same time
MaxRows == 3        \* rows of a drawn sales table
MaxHorizon == 4     \* longest horizon of a direct call of the stub
MaxLen == 7         \* longest history of a direct call of a strategy

-----------------------------------------------------------------------------
(* Exact rational arithmetic standing for float64 *)

Abs(x) == IF x < 0 THEN -x ELSE x

RECURSIVE Gcd(_, _)
Gcd(a, b) == IF b = 0 THEN a ELSE Gcd(b, a % b)

Rat(n, d) ==
    LET g == Gcd(Abs(n), Abs(d))
        s == IF d < 0 THEN -1 ELSE 1
    IN  IF g = 0 THEN [n |-> 0, d |-> 1]
        ELSE [n |-> s * (n \div g), d |-> s * (d \div g)]

RInt(k) == [n |-> k, d |-> 1]
Inf == [n |-> 1, d |-> 0]
IsInf(x) == x.d = 0

\* operands are reduced against each other first, to keep the integers small
RAdd(x, y) ==
    LET g == Gcd(x.d, y.d)
    IN  Rat(x.n * (y.d \div g) + y.n * (x.d \div g), (x.d \div g) * y.d)
RNeg(x) == [n |-> -x.n, d |-> x.d]
RSub(x, y) == RAdd(x, RNeg(y))
RMul(x, y) ==
    LET a == Rat(x.n, y.d)
        b == Rat(y.n, x.d)
    IN  [n |-> a.n * b.n, d |-> a.d * b.d]
RDiv(x, y) == RMul(x, IF y.n < 0 THEN [n |-> -y.d, d |-> -y.n] ELSE [n |-> y.d, d |-> y.n])
RAbs(x) == [n |-> Abs(x.n), d |-> x.d]
\* x < y on floats, with +inf
RLt(x, y) ==
    IF IsInf(x) THEN FALSE
    ELSE IF IsInf(y) THEN TRUE
    ELSE x.n * y.d < y.n * x.d
RLe(x, y) == ~RLt(y, x)
RMax0(x) == IF x.n < 0 THEN RInt(0) ELSE x

RECURSIVE RSum(_)
RSum(s) == IF s = <<>> THEN RInt(0) ELSE RAdd(Head(s), RSum(Tail(s)))

RMean(s) == RDiv(RSum(s), RInt(Len(s)))

-----------------------------------------------------------------------------
(* _generate_stub_forecast *)

\* round(sin(i * 2.5*pi / h) * 100) for i = 0..h-1, h = 1..6
SinSteps ==
    <<  <<0>>,
        <<0, -71>>,
        <<0, 50, -87>>,
        <<0, 92, -71, -38>>,
        <<0, 100, 0, -100, 0>>,
        <<0, 97, 50, -71, -87, 26>> >>

\* round(sin(1.7 * i * 2.5*pi / h) * 100)
SinSteps17 ==
    <<  <<0>>,
        <<0, 38>>,
        <<0, -97, 50>>,
        <<0, -20, 38, -56>>,
        <<0, 45, -81, 99, -95>>,
        <<0, 79, -97, 38, 50, -99>> >>

\* np.linspace(-0.08, 0.08, horizon)[i-1]
Trend(horizon, i) ==
    IF horizon = 1 THEN Rat(-8, 100)
    ELSE RAdd(Rat(-8, 100), Rat(16 * (i - 1), 100 * (horizon - 1)))

StubValue_NoFloor(base, horizon, i) ==
    LET seasonal == RMul(Rat(12, 100), Rat(SinSteps[horizon][i], 100))
        trend == Trend(horizon, i)
        raw == RMul(base, RAdd(RInt(1), RAdd(seasonal, trend)))
        noise == RMul(RMul(Rat(5, 100), base), Rat(SinSteps17[horizon][i], 100))
    IN  RAdd(raw, noise)

StubValue(base, horizon, i) ==
    LET seasonal == RMul(Rat(12, 100), Rat(SinSteps[horizon][i], 100))
        trend == Trend(horizon, i)
        raw == RMul(base, RAdd(RInt(1), RAdd(seasonal, trend)))
        noise == RMul(RMul(Rat(5, 100), base), Rat(SinSteps17[horizon][i], 100))
    IN  RMax0(RAdd(raw, noise))

generate_stub_forecast(base, horizon) ==
    IF horizon <= 0 THEN <<>>
    ELSE [i \in 1..horizon |-> StubValue(base, horizon, i)]

-----------------------------------------------------------------------------
(* _compute_mape, _compute_mae *)

\* the indices selected by mask = y_true > 0
RECURSIVE PositiveIdx(_, _)
PositiveIdx(y_true, i) ==
    IF i > Len(y_true) THEN <<>>
    ELSE (IF y_true[i].n > 0 THEN <<i>> ELSE <<>>) \o PositiveIdx(y_true, i + 1)

compute_mape(y_true, y_pred) ==
    LET mask == PositiveIdx(y_true, 1)
    IN  IF mask = <<>> THEN Inf
        ELSE RMean([k \in 1..Len(mask) |->
                RAbs(RDiv(RSub(y_true[mask[k]], y_pred[mask[k]]), y_true[mask[k]]))])

compute_mae(y_true, y_pred) ==
    IF Len(y_true) = 0 \/ Len(y_pred) = 0 THEN Inf
    ELSE RMean([k \in 1..Len(y_true) |-> RAbs(RSub(y_true[k], y_pred[k]))])

-----------------------------------------------------------------------------
(* _prepare_history *)

RECURSIVE SortedSeq(_)
SortedSeq(S) ==
    IF S = {} THEN <<>>
    ELSE LET m == CHOOSE x \in S : \A y \in S : x <= y
         IN  <<m>> \o SortedSeq(S \ {m})

RECURSIVE QuantitySum(_, _)
QuantitySum(df, date) ==
    IF df = <<>> THEN 0
    ELSE (IF Head(df).date = date THEN Head(df).quantity ELSE 0)
            + QuantitySum(Tail(df), date)

GroupByDateSum_PerRow(df) ==
    [k \in 1..Len(df) |-> [date |-> df[k].date, value |-> RInt(df[k].quantity)]]

\* df.groupby("date")["quantity"].sum().sort_index()
GroupByDateSum(df) ==
    LET idx == SortedSeq({df[i].date : i \in 1..Len(df)})
    IN  [k \in 1..Len(idx) |->
            [date |-> idx[k], value |-> RInt(QuantitySum(df, idx[k]))]]

prepare_history_StrictFilter(sku, location) ==
    LET bySku == SelectSeq(sales, LAMBDA r : r.sku = sku)
        df == IF location # None
              THEN SelectSeq(bySku, LAMBDA r : r.location = location)
              ELSE bySku
    IN  IF df = <<>> THEN <<>> ELSE GroupByDateSum(df)

prepare_history(sku, location) ==
    LET bySku == SelectSeq(sales, LAMBDA r : r.sku = sku)
        df == IF location # None
                 /\ \E i \in 1..Len(bySku) : bySku[i].location = location
              THEN SelectSeq(bySku, LAMBDA r : r.location = location)
              ELSE bySku
    IN  IF df = <<>> THEN <<>> ELSE GroupByDateSum(df)

Values(series) == [k \in 1..Len(series) |-> series[k].value]

-----------------------------------------------------------------------------
(* _forecast_arima, _forecast_prophet, _forecast_xgb *)

\* np.maximum(fc, 0.0) on the vector the fitted model returned; a fit that
\* raises is caught and the strategy returns None.
FloorAtZero_NoFloor(raw) == raw

FloorAtZero(raw) == [i \in 1..Len(raw) |-> RMax0(raw[i])]

\* An optional vector: NoVector is Python's None, Some(v) a returned array
NoVector == <<>>
Some(v) == <<v>>

\* lib outcome: [ok |-> FALSE, ...] the fit or predict raised;
\*              [ok |-> TRUE, level |-> l] it returned l at every step
LibForecast(outcome, steps) ==
    IF ~outcome.ok THEN NoVector
    ELSE Some(FloorAtZero([i \in 1..steps |-> RInt(outcome.level)]))

\* site is the call site: "val" (training prefix) or "fin" (whole history)
forecast_arima(series, horizon, site) ==
    IF Len(series) < 4 \/ horizon <= 0 THEN NoVector
    ELSE LibForecast(lib[site].arima, horizon)

forecast_prophet(series, horizon_dates, site) ==
    IF Len(series) < 4 \/ Len(horizon_dates) = 0 THEN NoVector
    ELSE LibForecast(lib[site].prophet, Len(horizon_dates))

forecast_xgb_MinFour(series, horizon, site) ==
    IF Len(series) < 4 \/ horizon <= 0 THEN NoVector
    ELSE LibForecast(lib[site].xgboost, horizon)

forecast_xgb(series, horizon, site) ==
    IF Len(series) < 6 \/ horizon <= 0 THEN NoVector
    ELSE LibForecast(lib[site].xgboost, horizon)

-----------------------------------------------------------------------------
(* _select_model_and_forecast *)

EmptyMetrics == <<>>

HasKey(m, k) == k \in DOMAIN m

Put(m, k, v) == [x \in (DOMAIN m) \cup {k} |-> IF x = k THEN v ELSE m[x]]

StubBase(series) == IF Len(series) > 0 THEN RMean(Values(series)) ELSE RInt(100)

NVal(series) ==
    LET q == Len(series) \div 4
        mx == IF q > 1 THEN q ELSE 1
    IN  IF mx < 3 THEN mx ELSE 3

\* pd.date_range(start=train.index[-n_val], periods=n_val, freq="D")
ProphetValDates(train, n_val) ==
    [k \in 1..n_val |-> train[Len(train) - n_val + 1].date + (k - 1)]

AddMetrics(metrics, name, val_true, val_pred) ==
    IF val_pred = NoVector THEN metrics
    ELSE Put(Put(metrics, name \o "_mape", compute_mape(val_true, val_pred[1])),
             name \o "_mae", compute_mae(val_true, val_pred[1]))

ValidationMetrics(series) ==
    LET n_val == NVal(series)
        train == SubSeq(series, 1, Len(series) - n_val)
        val_true == Values(SubSeq(series, Len(series) - n_val + 1, Len(series)))
        m1 == AddMetrics(EmptyMetrics, "arima", val_true,
                         forecast_arima(train, n_val, "val"))
        m2 == AddMetrics(m1, "prophet", val_true,
                         forecast_prophet(train, ProphetValDates(train, n_val), "val"))
    IN  AddMetrics(m2, "xgb", val_true, forecast_xgb(train, n_val, "val"))

forecast_with_name(name, series, horizon_dates) ==
    LET horizon == Len(horizon_dates)
    IN  CASE name = "arima" ->
                [fc |-> forecast_arima(series, horizon, "fin"), chosen |-> "arima"]
          [] name = "prophet" ->
                [fc |-> forecast_prophet(series, horizon_dates, "fin"), chosen |-> "prophet"]
          [] name = "xgboost" ->
                [fc |-> forecast_xgb(series, horizon, "fin"), chosen |-> "xgboost"]
          [] name = "stub" ->
                [fc |-> Some(generate_stub_forecast(StubBase(series), horizon)),
                 chosen |-> "stub"]
          [] OTHER -> [fc |-> NoVector, chosen |-> "stub"]

ScoreCandidates(metrics) ==
    (IF HasKey(metrics, "arima_mape")
        THEN <<[name |-> "arima", score |-> metrics["arima_mape"]]>> ELSE <<>>)
    \o (IF HasKey(metrics, "prophet_mape")
        THEN <<[name |-> "prophet", score |-> metrics["prophet_mape"]]>> ELSE <<>>)
    \o (IF HasKey(metrics, "xgb_mape")
        THEN <<[name |-> "xgboost", score |-> metrics["xgb_mape"]]>> ELSE <<>>)

RECURSIVE MinByScore_LastMin(_, _)
MinByScore_LastMin(best, rest) ==
    IF rest = <<>> THEN best.name
    ELSE IF RLe(Head(rest).score, best.score)
    THEN MinByScore_LastMin(Head(rest), Tail(rest))
    ELSE MinByScore_LastMin(best, Tail(rest))

\* min(score_candidates, key=score_candidates.get): the first minimal key in
\* insertion order
RECURSIVE MinByScore(_, _)
MinByScore(best, rest) ==
    IF rest = <<>> THEN best.name
    ELSE IF RLt(Head(rest).score, best.score) THEN MinByScore(Head(rest), Tail(rest))
    ELSE MinByScore(best, Tail(rest))

StubResult_Mislabelled(series, horizon, metrics) ==
    [fc |-> generate_stub_forecast(StubBase(series), horizon),
     chosen |-> "arima", metrics |-> metrics]

StubResult_DropsMetrics(series, horizon, metrics) ==
    [fc |-> generate_stub_forecast(StubBase(series), horizon),
     chosen |-> "stub", metrics |-> EmptyMetrics]

StubResult(series, horizon, metrics) ==
    [fc |-> generate_stub_forecast(StubBase(series), horizon),
     chosen |-> "stub", metrics |-> metrics]

BestModel(cands) == MinByScore(Head(cands), Tail(cands))

OrStub_NoFallback(final, series, horizon, metrics) ==
    [fc |-> IF final.fc = NoVector THEN <<>> ELSE final.fc[1],
     chosen |-> final.chosen, metrics |-> metrics]

OrStub_KeepsName(final, series, horizon, metrics) ==
    IF final.fc = NoVector
    THEN [fc |-> generate_stub_forecast(StubBase(series), horizon),
          chosen |-> final.chosen, metrics |-> metrics]
    ELSE [fc |-> final.fc[1], chosen |-> final.chosen, metrics |-> metrics]

OrStub(final, series, horizon, metrics) ==
    IF final.fc = NoVector THEN StubResult(series, horizon, metrics)
    ELSE [fc |-> final.fc[1], chosen |-> final.chosen, metrics |-> metrics]

\* lines 205-236: the choice once the validation metrics are known
SelectWithMetrics(series, horizon_dates, forced_model, metrics) ==
    IF forced_model \in {"arima", "prophet", "xgboost", "stub"}
    THEN OrStub(forecast_with_name(forced_model, series, horizon_dates),
                series, Len(horizon_dates), metrics)
    ELSE IF metrics = EmptyMetrics
    THEN StubResult(series, Len(horizon_dates), EmptyMetrics)
    ELSE IF ScoreCandidates(metrics) = <<>>
    THEN StubResult(series, Len(horizon_dates), metrics)
    ELSE OrStub(forecast_with_name(BestModel(ScoreCandidates(metrics)),
                                   series, horizon_dates),
                series, Len(horizon_dates), metrics)

select_model_and_forecast(series, horizon_dates, forced_model) ==
    IF Len(series) < 4 \/ Len(horizon_dates) <= 0
    THEN StubResult(series, Len(horizon_dates), EmptyMetrics)
    ELSE SelectWithMetrics(series, horizon_dates, forced_model,
                           ValidationMetrics(series))

-----------------------------------------------------------------------------
(* generate_ensemble_forecast *)

\* Day 1 is Saturday 2025-08-30, day 2 Sunday 2025-08-31, day 3 Monday 2025-09-01
IsSunday(d) == d % 7 = 2
MonthEnds == {2, 32, 63, 93}

\* pd.date_range(start, end, freq): "D" every day, "W" the Sundays, "M" the
\* month ends of [start, end]; empty when start > end
date_range(start, end, granularity) ==
    SortedSeq({d \in start..end :
        CASE granularity = "D" -> TRUE
          [] granularity = "W" -> IsSunday(d)
          [] granularity = "M" -> d \in MonthEnds})

ModelCode_Unknown(chosen_model) ==
    CASE chosen_model = "arima" -> RInt(1)
      [] chosen_model = "prophet" -> RInt(2)
      [] chosen_model = "xgboost" -> RInt(3)
      [] OTHER -> RInt(-1)

ModelCode(chosen_model) ==
    CASE chosen_model = "stub" -> RInt(0)
      [] chosen_model = "arima" -> RInt(1)
      [] chosen_model = "prophet" -> RInt(2)
      [] chosen_model = "xgboost" -> RInt(3)
      [] OTHER -> RInt(-1)

ForecastPoint(sku, date, mean) ==
    [sku |-> sku, date |-> date, mean |-> mean,
     q10 |-> RMul(mean, Rat(8, 10)), q50 |-> mean, q90 |-> RMul(mean, Rat(12, 10))]

SelectionFor_ZeroBase(history, date_index, forced_model) ==
    IF history = <<>>
    THEN [fc |-> generate_stub_forecast(RInt(0), Len(date_index)),
          chosen |-> "stub", metrics |-> EmptyMetrics]
    ELSE select_model_and_forecast(history, date_index, forced_model)

\* lines 255-266: the selection for one history
SelectionFor(history, date_index, forced_model) ==
    IF history = <<>>
    THEN [fc |-> generate_stub_forecast(RInt(100), Len(date_index)),
          chosen |-> "stub", metrics |-> EmptyMetrics]
    ELSE select_model_and_forecast(history, date_index, forced_model)

Min(a, b) == IF a < b THEN a ELSE b

\* lines 283-297: zip(date_index, mean_values)
SkuPoints(sku, date_index, sel) ==
    [chosen |-> sel.chosen, metrics |-> sel.metrics,
     points |-> [i \in 1..Min(Len(sel.fc), Len(date_index)) |->
                    ForecastPoint(sku, date_index[i], sel.fc[i])]]

\* one SKU's share of the loop body: history, selection and its points
SkuForecast(sku, request, date_index) ==
    SkuPoints(sku, date_index,
              SelectionFor(prepare_history(sku, request.location), date_index,
                           request.forced_model))

RECURSIVE PutAll(_, _, _, _)
PutAll(global, sku, metrics, keys) ==
    IF keys = {} THEN global
    ELSE LET k == CHOOSE x \in keys : TRUE
         IN  PutAll(Put(global, <<sku, k>>, metrics[k]), sku, metrics, keys \ {k})

Accumulate_SharedModel(acc, sku, r) ==
    [points |-> acc.points \o r.points,
     per_sku_model |-> [x \in (DOMAIN acc.per_sku_model) \cup {sku} |-> r.chosen],
     global_metrics |->
         Put(PutAll(acc.global_metrics, sku, r.metrics, DOMAIN r.metrics),
             <<sku, "chosen_model">>, ModelCode(r.chosen))]

\* lines 278-304: what one SKU adds to the accumulators
Accumulate(acc, sku, r) ==
    [points |-> acc.points \o r.points,
     per_sku_model |-> Put(acc.per_sku_model, sku, r.chosen),
     global_metrics |->
         Put(PutAll(acc.global_metrics, sku, r.metrics, DOMAIN r.metrics),
             <<sku, "chosen_model">>, ModelCode(r.chosen))]

\* the accumulators after the first k SKUs of request.sku_list
RECURSIVE EnsembleLoop(_, _, _)
EnsembleLoop(request, date_index, k) ==
    IF k = 0
    THEN [points |-> <<>>, global_metrics |-> <<>>, per_sku_model |-> <<>>]
    ELSE CHOOSE next \in
            {Accumulate(acc, request.sku_list[k], r) :
                acc \in {EnsembleLoop(request, date_index, k - 1)},
                r \in {SkuForecast(request.sku_list[k], request, date_index)}} : TRUE

EnsembleResult(acc) ==
    [points |-> acc.points,
     metadata |-> [model_name |-> "arima_prophet_xgb_ensemble",
                   per_sku_model |-> acc.per_sku_model],
     metrics |-> acc.global_metrics]

generate_ensemble_forecast(request) ==
    EnsembleResult(EnsembleLoop(request,
        date_range(request.start_date, request.end_date, request.granularity),
        Len(request.sku_list)))

-----------------------------------------------------------------------------
(* summarize_demand, compute_safety_stock_for_sku *)

DictHas(d, k) == \E i \in 1..Len(d) : d[i][1] = k
DictGet(d, k) == d[CHOOSE i \in 1..Len(d) : d[i][1] = k][2]
\* d[k] = v on a dict that keeps insertion order
DictSet(d, k, v) ==
    IF DictHas(d, k) THEN [i \in 1..Len(d) |-> IF d[i][1] = k THEN <<k, v>> ELSE d[i]]
    ELSE Append(d, <<k, v>>)

\* demand_by_sku[p.sku] += p.mean on a defaultdict(float)
AddDemand(demand_by_sku, p) ==
    DictSet(demand_by_sku, p.sku,
            RAdd(IF DictHas(demand_by_sku, p.sku) THEN DictGet(demand_by_sku, p.sku)
                 ELSE RInt(0), p.mean))

RECURSIVE DemandBySku(_, _)
DemandBySku(points, k) ==
    IF k = 0 THEN <<>>
    ELSE CHOOSE next \in {AddDemand(demand_by_sku, points[k]) :
                            demand_by_sku \in {DemandBySku(points, k - 1)}} : TRUE

PointDates(points) == {points[i].date : i \in 1..Len(points)}
MinDate(points) == CHOOSE d \in PointDates(points) : \A e \in PointDates(points) : d <= e
MaxDate(points) == CHOOSE d \in PointDates(points) : \A e \in PointDates(points) : d >= e

ZValue_Strict(constraints) ==
    IF RLt(Rat(95, 100), constraints.target_service_level) THEN Rat(165, 100) ELSE RInt(1)

ZValue(constraints) ==
    IF RLe(Rat(95, 100), constraints.target_service_level) THEN Rat(165, 100) ELSE RInt(1)

compute_safety_stock_for_sku(total_demand, horizon_days, constraints) ==
    IF horizon_days <= 0 THEN RInt(0)
    ELSE RMul(RMul(RDiv(total_demand, RInt(horizon_days)),
                   RInt(constraints.lead_time_days)), ZValue(constraints))

-----------------------------------------------------------------------------
(* generate_supply_plan *)

TotalRequired(total_demand, horizon_days, constraints) ==
    RAdd(total_demand,
         compute_safety_stock_for_sku(total_demand, horizon_days, constraints))

PurchaseQuantity_Half(total_required) == RMul(total_required, Rat(5, 10))

PurchaseQuantity(total_required) == RMul(total_required, Rat(4, 10))

ProductionQuantity(total_required) == RMul(total_required, Rat(6, 10))

RecommendedOrder(sku, location, order_date, quantity) ==
    [sku |-> sku, location |-> location, order_date |-> order_date,
     quantity |-> quantity, order_type |-> "purchase"]

ProductionRecommendation(sku, production_date, quantity) ==
    [sku |-> sku, line_id |-> "LINE-1", production_date |-> production_date,
     quantity |-> quantity]

PlanSku_LastVolume(acc, sku, total_required, location, min_date) ==
    [orders |->
        IF PurchaseQuantity(total_required).n > 0
        THEN Append(acc.orders, RecommendedOrder(sku, location, min_date,
                                                 PurchaseQuantity(total_required)))
        ELSE acc.orders,
     production |->
        IF ProductionQuantity(total_required).n > 0
        THEN Append(acc.production,
                    ProductionRecommendation(sku, min_date,
                                             ProductionQuantity(total_required)))
        ELSE acc.production,
     total_volume |-> total_required]

PlanSku_AlwaysRecommends(acc, sku, total_required, location, min_date) ==
    [orders |-> Append(acc.orders, RecommendedOrder(sku, location, min_date,
                                                    PurchaseQuantity(total_required))),
     production |-> Append(acc.production,
                           ProductionRecommendation(sku, min_date,
                                                    ProductionQuantity(total_required))),
     total_volume |-> RAdd(acc.total_volume, total_required)]

\* lines 37-63: what one SKU adds to orders, production and total_volume
PlanSku(acc, sku, total_required, location, min_date) ==
    [orders |->
        IF PurchaseQuantity(total_required).n > 0
        THEN Append(acc.orders, RecommendedOrder(sku, location, min_date,
                                                 PurchaseQuantity(total_required)))
        ELSE acc.orders,
     production |->
        IF ProductionQuantity(total_required).n > 0
        THEN Append(acc.production,
                    ProductionRecommendation(sku, min_date,
                                             ProductionQuantity(total_required)))
        ELSE acc.production,
     total_volume |-> RAdd(acc.total_volume, total_required)]

\* the accumulators after the first k items of demand_by_sku
RECURSIVE PlanLoop(_, _, _, _, _, _)
PlanLoop(demand_by_sku, k, horizon_days, constraints, location, min_date) ==
    IF k = 0 THEN [orders |-> <<>>, production |-> <<>>, total_volume |-> RInt(0)]
    ELSE CHOOSE next \in
            {PlanSku(acc, demand_by_sku[k][1], total_required, location, min_date) :
                acc \in {PlanLoop(demand_by_sku, k - 1, horizon_days, constraints,
                                  location, min_date)},
                total_required \in {TotalRequired(demand_by_sku[k][2], horizon_days,
                                                  constraints)}} : TRUE

PlanKPI(name, value, unit) == [name |-> name, value |-> value, unit |-> unit]

PlanResult(acc, constraints) ==
    [orders |-> acc.orders, production |-> acc.production,
     kpis |-> << PlanKPI("Total Volume", acc.total_volume, "units"),
                 PlanKPI("Target Service Level", constraints.target_service_level, "") >>]

PlanFor(demand_by_sku, min_date, max_date, constraints, location) ==
    PlanResult(PlanLoop(demand_by_sku, Len(demand_by_sku), (max_date - min_date) + 1,
                        constraints, location, min_date),
               constraints)

generate_supply_plan(points, constraints, location) ==
    IF points = <<>> THEN [orders |-> <<>>, production |-> <<>>, kpis |-> <<>>]
    ELSE PlanFor(DemandBySku(points, Len(points)), MinDate(points), MaxDate(points),
                 constraints, location)

-----------------------------------------------------------------------------
(* compute_scenario_kpis *)

DemandFactors_AllTypes(shocks) == [i \in 1..Len(shocks) |-> shocks[i].factor]

\* [shock.factor for shock in request.shocks if shock.type == demand]
DemandFactors(shocks) ==
    LET demand == SelectSeq(shocks, LAMBDA shock : shock.type = "demand")
    IN  [i \in 1..Len(demand) |-> demand[i].factor]

DemandFactor(demand_factors) ==
    IF demand_factors # <<>> THEN RDiv(RSum(demand_factors), RInt(Len(demand_factors)))
    ELSE RInt(1)

Quantities(items) == [i \in 1..Len(items) |-> items[i].quantity]

BaseVolume(plan) == RAdd(RSum(Quantities(plan.orders)), RSum(Quantities(plan.production)))

ScenarioKPI(base_volume, scenario_volume) ==
    [name |-> "Total Volume", base |-> base_volume, scenario |-> scenario_volume,
     delta |-> RSub(scenario_volume, base_volume), unit |-> "units"]

ScenarioVolume(base_volume, demand_factor) == RMul(base_volume, demand_factor)

KpisFor(base_volume, demand_factor) ==
    << ScenarioKPI(base_volume, ScenarioVolume(base_volume, demand_factor)) >>

compute_scenario_kpis(plan, request) ==
    KpisFor(BaseVolume(plan), DemandFactor(DemandFactors(request.shocks)))

-----------------------------------------------------------------------------
(* Inputs *)

SKUs == {"SKU-000", "SKU-001", "SKU-002"}
Locations == {None, "WH-1", "WH-9"}
Granularities == {"D", "W", "M"}
ForcedModels == {None, "arima", "prophet", "xgboost", "stub", "lstm"}
Days == 1..MaxDay

Row(sku, location, date, quantity) ==
    [sku |-> sku, location |-> location, date |-> date, quantity |-> quantity]

\* SKU-000 has no rows; SKU-001 has 2 days at WH-1 and 5 days over all
\* locations, the last of them with quantity 0; SKU-002 has 7 days at WH-1
\* (one of them in two rows) and 8 over all locations.
SampleSales ==
    <<  Row("SKU-002", "WH-1", -3, 6), Row("SKU-001", "WH-1", -5, 10),
        Row("SKU-001", "WH-2", -4, 12), Row("SKU-001", "WH-1", -3, 8),
        Row("SKU-001", "WH-2", -2, 10), Row("SKU-001", "WH-2", -1, 0),
        Row("SKU-002", "WH-1", -7, 10), Row("SKU-002", "WH-1", -6, 10),
        Row("SKU-002", "WH-1", -5, 12), Row("SKU-002", "WH-1", -4, 8),
        Row("SKU-002", "WH-1", -3, 4), Row("SKU-002", "WH-1", -2, 10),
        Row("SKU-002", "WH-1", -1, 10), Row("SKU-002", "WH-2", -8, 10) >>

SalesTables == {SampleSales}

Fail == [ok |-> FALSE, level |-> 0]
Ok(l) == [ok |-> TRUE, level |-> l]
ValOutcomes == {Fail, Ok(8), Ok(11)}
FinOutcomes == {Fail, Ok(-5), Ok(9)}

Strategies == {"arima", "prophet", "xgboost"}

\* the fits made for one request: validation outcomes per strategy on the
\* training prefix, and the outcome of the fit on the whole history
LibOutcomes ==
    [val : [arima : ValOutcomes, prophet : ValOutcomes, xgboost : ValOutcomes],
     fin : [arima : FinOutcomes, prophet : FinOutcomes, xgboost : FinOutcomes]]

UniformLib(v, f) ==
    [val |-> [arima |-> v, prophet |-> v, xgboost |-> v],
     fin |-> [arima |-> f, prophet |-> f, xgboost |-> f]]

\* every strategy fits the whole history alike
SelectLibs == {l \in LibOutcomes : l.fin.arima = l.fin.prophet /\ l.fin.prophet = l.fin.xgboost}

\* every strategy behaves alike
RequestLibs == {UniformLib(v, f) : v \in {Fail, Ok(8)}, f \in FinOutcomes}

SeqsUpTo(S, n) == UNION {[1..k -> S] : k \in 1..n}

ForecastRequests ==
    [sku_list : SeqsUpTo(SKUs, MaxSkus), start_date : Days, end_date : Days,
     granularity : Granularities, location : {None, "WH-1"},
     forced_model : ForcedModels]

-----------------------------------------------------------------------------
(* The session store: Python dicts keep insertion order *)

DictKeys(d) == {d[i][1] : i \in 1..Len(d)}
DictValues(d) == [i \in 1..Len(d) |-> d[i][2]]

NotCalled == [status |-> 0, body |-> <<>>]
Returned(v) == [status |-> 200, body |-> <<v>>]
HTTPException(code) == [status |-> code, body |-> <<>>]

\* str(uuid.uuid4()): an identifier never returned before
UuidNames ==
    << "uuid-1", "uuid-2", "uuid-3", "uuid-4", "uuid-5", "uuid-6", "uuid-7", "uuid-8" >>
NextUuid_Reused == UuidNames[IF uuids = 0 THEN 1 ELSE uuids]

NextUuid == UuidNames[uuids + 1]
IssuedUuids == {UuidNames[i] : i \in 1..uuids}

-----------------------------------------------------------------------------
(* ForecastService.generate_forecast *)

ForecastResponse(forecast_id, r) ==
    [forecast_id |-> forecast_id, points |-> r.points,
     metadata |-> r.metadata, metrics |-> r.metrics]

generate_forecast(payload) ==
    \E r \in {generate_ensemble_forecast(payload)} :
    \E response \in {ForecastResponse(NextUuid, r)} :
        /\ uuids' = uuids + 1
        /\ forecasts' = DictSet(forecasts, response.forecast_id, response)
        /\ ret' = Returned(response)
        /\ UNCHANGED <<sales, lib, plans, scenarios>>

-----------------------------------------------------------------------------
(* One forecast request, drawn from ForecastRequests, on the initial store *)

EmptyStore == forecasts = <<>> /\ plans = <<>> /\ scenarios = <<>> /\ uuids = 0

InitForecast ==
    /\ sales \in SalesTables
    /\ lib \in RequestLibs
    /\ call \in [op : {"forecast"}, payload : ForecastRequests]
    /\ ret = NotCalled
    /\ EmptyStore

RunForecast ==
    /\ ret = NotCalled
    /\ generate_forecast(call.payload)
    /\ UNCHANGED call

SpecForecast == InitForecast /\ [][RunForecast]_vars

-----------------------------------------------------------------------------
(* One forecast request, one SKU of the loop of generate_ensemble_forecast at
   a time *)

LoopRequests ==
    [sku_list : SeqsUpTo(SKUs, MaxSkus), start_date : Days, end_date : Days,
     granularity : {"D"}, location : {None}, forced_model : {None}]

\* points, global_metrics and per_sku_model before the loop
EmptyAccumulators == [points |-> <<>>, global_metrics |-> <<>>, per_sku_model |-> <<>>]

InitLoop ==
    /\ sales \in SalesTables
    /\ lib \in RequestLibs
    /\ \E payload \in LoopRequests :
            call = [op |-> "forecast_loop", payload |-> payload, k |-> 0,
                    acc |-> EmptyAccumulators]
    /\ ret = NotCalled
    /\ EmptyStore

LoopDone_AfterFirst(k, request) == k >= 1 \/ k = Len(request.sku_list)

\* `for sku in request.sku_list` is exhausted
LoopDone(k, request) == k = Len(request.sku_list)

\* one pass of the loop body, for the SKU at position k + 1
LoopSku ==
    /\ call.op = "forecast_loop"
    /\ ret = NotCalled
    /\ ~LoopDone(call.k, call.payload)
    /\ \E r \in {SkuForecast(call.payload.sku_list[call.k + 1], call.payload,
                              date_range(call.payload.start_date, call.payload.end_date,
                                         call.payload.granularity))} :
            call' = [call EXCEPT !.k = @ + 1,
                                 !.acc = Accumulate(@, call.payload.sku_list[call.k + 1], r)]
    /\ UNCHANGED <<sales, lib, forecasts, plans, scenarios, uuids, ret>>

\* the sales file, read again for every SKU, cannot be loaded: the exception
\* leaves generate_ensemble_forecast and the service
LoopRaises ==
    /\ call.op = "forecast_loop"
    /\ ret = NotCalled
    /\ ~LoopDone(call.k, call.payload)
    /\ ret' = HTTPException(500)
    /\ UNCHANGED <<sales, lib, forecasts, plans, scenarios, uuids, call>>

\* after the loop: the response is built, stored and returned
StoreForecast ==
    /\ call.op = "forecast_loop"
    /\ ret = NotCalled
    /\ LoopDone(call.k, call.payload)
    /\ \E response \in {ForecastResponse(NextUuid, EnsembleResult(call.acc))} :
            /\ uuids' = uuids + 1
            /\ forecasts' = DictSet(forecasts, response.forecast_id, response)
            /\ ret' = Returned(response)
    /\ UNCHANGED <<sales, lib, plans, scenarios, call>>

SpecLoop == InitLoop /\ [][LoopSku \/ LoopRaises \/ StoreForecast]_vars

-----------------------------------------------------------------------------
(* One call of _prepare_history on a drawn sales table *)

SalesRows ==
    {Row(sku, location, d[1], d[2]) :
        sku \in {"SKU-001", "SKU-002"}, location \in {"WH-1", "WH-2"},
        d \in {<<-2, 5>>, <<-1, 3>>, <<-1, 4>>}}

DrawnSales == UNION {[1..n -> SalesRows] : n \in 0..MaxRows}

InitHistory ==
    /\ sales \in DrawnSales
    /\ lib = UniformLib(Fail, Fail)
    /\ call \in [op : {"history"}, sku : SKUs, location : Locations]
    /\ ret = NotCalled
    /\ EmptyStore

RunHistory ==
    /\ ret = NotCalled
    /\ ret' = Returned(prepare_history(call.sku, call.location))
    /\ UNCHANGED <<sales, lib, forecasts, plans, scenarios, uuids, call>>

SpecHistory == InitHistory /\ [][RunHistory]_vars

-----------------------------------------------------------------------------
(* Two calls of _generate_stub_forecast with the same arguments *)

StubBases ==
    {RInt(-50), RInt(-1), RInt(0), Rat(1, 2), RInt(10), Rat(27, 2), RInt(100)}

InitStub ==
    /\ sales \in {<<>>, SampleSales}
    /\ lib \in RequestLibs
    /\ call \in [op : {"stub"}, base : StubBases, horizon : -1..MaxHorizon]
    /\ ret = NotCalled
    /\ EmptyStore

CallStub ==
    /\ ret = NotCalled
    /\ ret' = Returned(generate_stub_forecast(call.base, call.horizon))
    /\ UNCHANGED <<sales, lib, forecasts, plans, scenarios, uuids, call>>

CallStubAgain ==
    /\ ret.status = 200
    /\ Len(ret.body) = 1
    /\ ret' = [ret EXCEPT
                 !.body = Append(@, generate_stub_forecast(call.base, call.horizon))]
    /\ UNCHANGED <<sales, lib, forecasts, plans, scenarios, uuids, call>>

SpecStub == InitStub /\ [][CallStub \/ CallStubAgain]_vars

-----------------------------------------------------------------------------
(* One call of _select_model_and_forecast on a drawn history *)

Histories == {prepare_history(sku, location) : sku \in SKUs, location \in Locations}
DateIndexes == {date_range(s, e, g) : s \in Days, e \in Days, g \in Granularities}

InitSelect ==
    /\ sales \in SalesTables
    /\ lib \in SelectLibs
    /\ call \in [op : {"select"}, series : Histories, horizon_dates : DateIndexes,
                 forced_model : ForcedModels]
    /\ ret = NotCalled
    /\ EmptyStore

RunSelect ==
    /\ ret = NotCalled
    /\ ret' = Returned(select_model_and_forecast(call.series, call.horizon_dates,
                                                call.forced_model))
    /\ UNCHANGED <<sales, lib, forecasts, plans, scenarios, uuids, call>>

SpecSelect == InitSelect /\ [][RunSelect]_vars

-----------------------------------------------------------------------------
(* One call of a strategy, or of the unforced selector, on a history of a
   drawn length *)

\* a daily history of n positive values ending the day before day 0
DailySeries(n) == [k \in 1..n |-> [date |-> k - n - 1, value |-> RInt(9 + (k % 3))]]

InitStrategy ==
    /\ sales \in SalesTables
    /\ lib \in SelectLibs
    /\ call \in [op : {"strategy"}, series : {DailySeries(n) : n \in 0..MaxLen},
                 horizon_dates : DateIndexes]
    /\ ret = NotCalled
    /\ EmptyStore

StrategyResult(name, fc, chosen) == [name |-> name, fc |-> fc, chosen |-> chosen]

RunArima ==
    /\ ret = NotCalled
    /\ ret' = Returned(StrategyResult("arima",
                    forecast_arima(call.series, Len(call.horizon_dates), "fin"), "arima"))
    /\ UNCHANGED <<sales, lib, forecasts, plans, scenarios, uuids, call>>

RunProphet ==
    /\ ret = NotCalled
    /\ ret' = Returned(StrategyResult("prophet",
                    forecast_prophet(call.series, call.horizon_dates, "fin"), "prophet"))
    /\ UNCHANGED <<sales, lib, forecasts, plans, scenarios, uuids, call>>

RunXgb ==
    /\ ret = NotCalled
    /\ ret' = Returned(StrategyResult("xgboost",
                    forecast_xgb(call.series, Len(call.horizon_dates), "fin"), "xgboost"))
    /\ UNCHANGED <<sales, lib, forecasts, plans, scenarios, uuids, call>>

RunUnforced ==
    /\ ret = NotCalled
    /\ \E sel \in {select_model_and_forecast(call.series, call.horizon_dates, None)} :
            ret' = Returned(StrategyResult("select", Some(sel.fc), sel.chosen))
    /\ UNCHANGED <<sales, lib, forecasts, plans, scenarios, uuids, call>>

SpecStrategy ==
    InitStrategy /\ [][RunArima \/ RunProphet \/ RunXgb \/ RunUnforced]_vars

-----------------------------------------------------------------------------
(* One call of generate_supply_plan on the points of a generated forecast *)

InventoryConstraints(target_service_level, lead_time_days) ==
    [target_service_level |-> target_service_level, max_days_of_cover |-> 90,
     min_days_of_cover |-> 0, lead_time_days |-> lead_time_days]

ServiceLevels == {Rat(9, 10), Rat(95, 100)}
LeadTimes == {-20, 0, 10}
ConstraintSets == {InventoryConstraints(t, l) : t \in ServiceLevels, l \in LeadTimes}

PlanSourceRequests ==
    [sku_list : SeqsUpTo(SKUs, MaxSkus), start_date : Days, end_date : Days,
     granularity : {"D"}, location : {None}, forced_model : {None, "arima"}]

InitPlan ==
    /\ sales \in SalesTables
    /\ lib \in RequestLibs
    /\ call \in [op : {"forecast"}, payload : PlanSourceRequests]
    /\ ret = NotCalled
    /\ EmptyStore

\* generate_supply_plan on the points of the forecast just returned
SupplyPlanStep(constraint_sets, locations) ==
    /\ call.op = "forecast"
    /\ ret.status = 200
    /\ \E constraints \in constraint_sets, location \in locations :
            /\ call' = [op |-> "supply_plan", points |-> ret.body[1].points,
                        constraints |-> constraints, location |-> location]
            /\ ret' = Returned(generate_supply_plan(ret.body[1].points, constraints,
                                                    location))
    /\ UNCHANGED <<sales, lib, forecasts, plans, scenarios, uuids>>

RunPlan == SupplyPlanStep(ConstraintSets, {None, "WH-1"})

SpecPlan == InitPlan /\ [][RunForecast \/ RunPlan]_vars

-----------------------------------------------------------------------------
(* One call of compute_scenario_kpis on a drawn plan and list of shocks *)

ScenarioShock(type, factor, decorated) ==
    [type |-> type, factor |-> factor,
     sku |-> IF decorated THEN "SKU-001" ELSE None,
     location |-> IF decorated THEN "WH-1" ELSE None,
     start_date |-> 1, end_date |-> IF decorated THEN 2 ELSE 1,
     delta |-> IF decorated THEN RInt(5) ELSE RInt(0)]

ShockKinds ==
    { <<"demand", Rat(4, 5)>>, <<"demand", RInt(1)>>, <<"demand", Rat(6, 5)>>,
      <<"supply", Rat(6, 5)>>, <<"capacity", Rat(4, 5)>>, <<"price", Rat(6, 5)>> }

Shocks == {ScenarioShock(k[1], k[2], b) : k \in ShockKinds, b \in BOOLEAN}

ShockLists == {<<>>} \cup SeqsUpTo(Shocks, MaxShocks)

ScenarioRequest(forecast_id, plan_id, shocks) ==
    [forecast_id |-> forecast_id, plan_id |-> plan_id, name |-> None, shocks |-> shocks]

ScenarioSourceRequests ==
    [sku_list : SeqsUpTo(SKUs, MaxSkus), start_date : {1}, end_date : {MaxDay},
     granularity : {"D"}, location : {None}, forced_model : {None}]

InitScenario ==
    /\ sales \in SalesTables
    /\ lib = UniformLib(Ok(8), Ok(9))
    /\ call \in [op : {"forecast"}, payload : ScenarioSourceRequests]
    /\ ret = NotCalled
    /\ EmptyStore

RunDefaultPlan ==
    SupplyPlanStep({InventoryConstraints(t, 10) : t \in ServiceLevels}, {None})

\* compute_scenario_kpis on the plan just returned
RunScenarioKpis ==
    /\ call.op = "supply_plan"
    /\ \E shocks \in ShockLists :
            /\ call' = [op |-> "scenario_kpis", plan |-> ret.body[1],
                        request |-> ScenarioRequest("uuid-1", None, shocks)]
            /\ ret' = Returned(compute_scenario_kpis(ret.body[1],
                                                     ScenarioRequest("uuid-1", None, shocks)))
    /\ UNCHANGED <<sales, lib, forecasts, plans, scenarios, uuids>>

SpecScenario == InitScenario /\ [][RunForecast \/ RunDefaultPlan \/ RunScenarioKpis]_vars

-----------------------------------------------------------------------------
(* PlanningService.generate_plan *)

PlanResponse(plan_id, forecast_id, r) ==
    [plan_id |-> plan_id, forecast_id |-> forecast_id, orders |-> r.orders,
     production |-> r.production, kpis |-> r.kpis]

NothingStored == UNCHANGED <<sales, lib, forecasts, plans, scenarios, uuids>>

generate_plan(payload) ==
    IF ~DictHas(forecasts, payload.forecast_id)
    THEN ret' = HTTPException(404) /\ NothingStored
    ELSE \E r \in {generate_supply_plan(DictGet(forecasts, payload.forecast_id).points,
                                        payload.constraints, payload.location)} :
         \E response \in {PlanResponse(NextUuid, payload.forecast_id, r)} :
            /\ uuids' = uuids + 1
            /\ plans' = DictSet(plans, response.plan_id, response)
            /\ ret' = Returned(response)
            /\ UNCHANGED <<sales, lib, forecasts, scenarios>>

-----------------------------------------------------------------------------
(* ScenarioService *)

\* `if payload.plan_id:` is false for None and for the empty string
Truthy(text) == text \notin {None, ""}

\* for candidate in store.plans.values(): the first one of the forecast
FirstMatch(candidates, forecast_id) ==
    LET matching == SelectSeq(candidates, LAMBDA c : c.forecast_id = forecast_id)
    IN  IF matching = <<>> THEN NoVector ELSE Some(matching[1])

BasePlan_AnyPlan(payload) ==
    IF Truthy(payload.plan_id) /\ DictHas(plans, payload.plan_id)
    THEN Some(DictGet(plans, payload.plan_id))
    ELSE FirstMatch(DictValues(plans), payload.forecast_id)

\* lines 18-31: the plan the scenario is computed from, if any
BasePlan(payload) ==
    IF Truthy(payload.plan_id)
    THEN IF DictHas(plans, payload.plan_id)
         THEN Some(DictGet(plans, payload.plan_id)) ELSE NoVector
    ELSE FirstMatch(DictValues(plans), payload.forecast_id)

Direction_NoDecrease(delta) ==
    IF delta.n > 0 THEN "increase" ELSE "no change"

Direction(delta) ==
    IF delta.n > 0 THEN "increase" ELSE IF delta.n < 0 THEN "decrease" ELSE "no change"

PctChange(total_kpi) ==
    IF total_kpi.base # RInt(0)
    THEN RMul(RDiv(total_kpi.delta, total_kpi.base), RInt(100)) ELSE RInt(0)

\* format(x, ".<digits>f"): x rounded to a multiple of 10^-digits, given as
\* the number of such units; a value half-way between two goes to the even one
Fixed(x, digits) ==
    LET scale == IF digits = 0 THEN 1 ELSE IF digits = 1 THEN 10 ELSE 100
        units == x.n * scale
        low == units \div x.d
        rest == 2 * (units % x.d)
    IN  IF rest < x.d THEN low
        ELSE IF rest > x.d THEN low + 1
        ELSE IF low % 2 = 0 THEN low ELSE low + 1

\* the sentences of the narrative, with the numbers as they are printed
NarrativeParts(total_kpi, avg_demand_factor) ==
    << [direction |-> Direction(total_kpi.delta), base |-> Fixed(total_kpi.base, 0),
        scenario |-> Fixed(total_kpi.scenario, 0),
        pct_change |-> Fixed(PctChange(total_kpi), 1)] >>
    \o (IF avg_demand_factor # RInt(1)
        THEN << [avg_demand_factor |-> Fixed(avg_demand_factor, 2)] >> ELSE <<>>)

\* narrative = None is NoVector, a narrative string is Some(its contents)
Narrative(payload, kpis) ==
    LET narrative_parts ==
            NarrativeParts(kpis[1], DemandFactor(DemandFactors(payload.shocks)))
    IN  IF narrative_parts = <<>> THEN NoVector
        ELSE Some([scenario_name |-> IF Truthy(payload.name) THEN payload.name
                                     ELSE "Scenario",
                   parts |-> narrative_parts])

ScenarioResponse(scenario_id, payload, plan, kpis) ==
    [scenario_id |-> scenario_id, forecast_id |-> payload.forecast_id,
     plan_id |-> plan.plan_id, name |-> payload.name, kpis |-> kpis,
     narrative |-> Narrative(payload, kpis)]

ScenarioFor(scenario_id, payload, plan) ==
    ScenarioResponse(scenario_id, payload, plan, compute_scenario_kpis(plan, payload))

run_scenario(payload) ==
    \E plan \in {BasePlan(payload)} :
        IF plan = NoVector
        THEN /\ ret' = HTTPException(IF Truthy(payload.plan_id) THEN 404 ELSE 400)
             /\ NothingStored
        ELSE \E response \in {ScenarioFor(NextUuid, payload, plan[1])} :
                /\ uuids' = uuids + 1
                /\ scenarios' = DictSet(scenarios, response.scenario_id, response)
                /\ ret' = Returned(response)
                /\ UNCHANGED <<sales, lib, forecasts, plans>>

ScenarioSummary(scenario) ==
    [scenario_id |-> scenario.scenario_id, forecast_id |-> scenario.forecast_id,
     plan_id |-> scenario.plan_id, name |-> scenario.name]

ListedScenarios(forecast_id, plan_id) ==
    SelectSeq(DictValues(scenarios),
              LAMBDA scenario :
                /\ forecast_id # None => scenario.forecast_id = forecast_id
                /\ plan_id # None => scenario.plan_id = plan_id)

list_scenarios(forecast_id, plan_id) ==
    /\ ret' = Returned([scenarios |->
                [i \in 1..Len(ListedScenarios(forecast_id, plan_id)) |->
                    ScenarioSummary(ListedScenarios(forecast_id, plan_id)[i])]])
    /\ NothingStored

get_scenario(scenario_id) ==
    /\ ret' = IF DictHas(scenarios, scenario_id)
              THEN Returned(DictGet(scenarios, scenario_id)) ELSE HTTPException(404)
    /\ NothingStored

-----------------------------------------------------------------------------
(* ExplainabilityService.explain_forecast, CopilotService.answer_query *)

\* build_explanation reads the forecast's id and the SKUs of its points
build_explanation(forecast) ==
    [forecast_id |-> forecast.forecast_id,
     skus |-> {forecast.points[i].sku : i \in 1..Len(forecast.points)},
     method |-> "stub-shap-like"]

explain_forecast(forecast_id) ==
    /\ ret' = IF DictHas(forecasts, forecast_id)
              THEN Returned(build_explanation(DictGet(forecasts, forecast_id)))
              ELSE HTTPException(404)
    /\ NothingStored

\* the artifact a summary is about: the one named, else the latest created
Summarized(artifacts, id) ==
    IF artifacts = <<>> THEN None
    ELSE IF id # None /\ DictHas(artifacts, id) THEN id
    ELSE artifacts[Len(artifacts)][1]

answer_query(request) ==
    /\ ret' = Returned([forecast |-> Summarized(forecasts, request.forecast_id),
                        plan |-> Summarized(plans, request.plan_id),
                        used_context |-> [has_forecast |-> forecasts # <<>>,
                                          has_plan |-> plans # <<>>,
                                          scenario_count |-> Len(scenarios)]])
    /\ NothingStored

-----------------------------------------------------------------------------
(* The session: requests arrive one after the other on the initial store *)

Missing == "missing"
ForecastIds == DictKeys(forecasts) \cup {Missing}
PlanIds == DictKeys(plans) \cup {Missing}
ScenarioIds == DictKeys(scenarios) \cup {Missing}

SessionForecastRequests ==
    { [sku_list |-> <<"SKU-001", "SKU-002">>, start_date |-> 1, end_date |-> 2,
       granularity |-> "D", location |-> None, forced_model |-> None] }

PlanGenerateRequests ==
    [forecast_id : ForecastIds, objective : {"service_level"},
     constraints : {InventoryConstraints(Rat(95, 100), 10),
                    InventoryConstraints(Rat(9, 10), -20)},
     location : {None}]

ScenarioRequests ==
    {ScenarioRequest(f, p, <<ScenarioShock("demand", Rat(6, 5), FALSE)>>) :
        f \in ForecastIds, p \in PlanIds \cup {None, ""}}

Init ==
    /\ sales \in SalesTables
    /\ lib = UniformLib(Ok(8), Ok(9))
    /\ call = [op |-> "none"]
    /\ ret = NotCalled
    /\ EmptyStore

CreateForecast ==
    /\ uuids < MaxUuids
    /\ \E payload \in SessionForecastRequests :
            /\ call' = [op |-> "forecast", payload |-> payload]
            /\ generate_forecast(payload)

GeneratePlan ==
    /\ uuids < MaxUuids
    /\ \E payload \in PlanGenerateRequests :
            /\ call' = [op |-> "plan", payload |-> payload]
            /\ generate_plan(payload)

RunScenario ==
    /\ uuids < MaxUuids
    /\ \E payload \in ScenarioRequests :
            /\ call' = [op |-> "scenario", payload |-> payload]
            /\ run_scenario(payload)

ListScenarios ==
    \E forecast_id \in DictKeys(forecasts) \cup {None},
       plan_id \in DictKeys(plans) \cup {None} :
        /\ call' = [op |-> "list_scenarios", forecast_id |-> forecast_id,
                    plan_id |-> plan_id]
        /\ list_scenarios(forecast_id, plan_id)

GetScenario ==
    \E scenario_id \in ScenarioIds :
        /\ call' = [op |-> "get_scenario", scenario_id |-> scenario_id]
        /\ get_scenario(scenario_id)

ExplainForecast ==
    \E forecast_id \in ForecastIds :
        /\ call' = [op |-> "explain", forecast_id |-> forecast_id]
        /\ explain_forecast(forecast_id)

CopilotQuery ==
    \E forecast_id \in ForecastIds \cup {None}, plan_id \in PlanIds \cup {None} :
        /\ call' = [op |-> "copilot", forecast_id |-> forecast_id, plan_id |-> plan_id]
        /\ answer_query([forecast_id |-> forecast_id, plan_id |-> plan_id])

Next ==
    \/ CreateForecast
    \/ GeneratePlan
    \/ RunScenario
    \/ ListScenarios
    \/ GetScenario
    \/ ExplainForecast
    \/ CopilotQuery

Spec == Init /\ [][Next]_vars

-----------------------------------------------------------------------------
(* One forecast, one plan of it, one scenario on that plan *)

NarrativeConstraints ==
    {InventoryConstraints(Rat(95, 100), 10), InventoryConstraints(Rat(9, 10), -20)}

PlanOfForecast ==
    /\ call.op = "forecast"
    /\ ret.status = 200
    /\ \E constraints \in NarrativeConstraints :
        \E payload \in {[forecast_id |-> ret.body[1].forecast_id,
                          objective |-> "service_level",
                          constraints |-> constraints, location |-> None]} :
            /\ call' = [op |-> "plan", payload |-> payload]
            /\ generate_plan(payload)

ScenarioOfPlan ==
    /\ call.op = "plan"
    /\ ret.status = 200
    /\ \E shocks \in ShockLists, name \in {None, "Promo"} :
        \E payload \in {[ScenarioRequest(ret.body[1].forecast_id,
                                          ret.body[1].plan_id, shocks)
                            EXCEPT !.name = name]} :
            /\ call' = [op |-> "scenario", payload |-> payload]
            /\ run_scenario(payload)

SpecNarrative ==
    InitScenario /\ [][RunForecast \/ PlanOfForecast \/ ScenarioOfPlan]_vars

-----------------------------------------------------------------------------
(* Requests in flight together: each handler builds its response from what
   the store holds at that moment, registers it with one dict assignment and
   returns it; the steps of different requests interleave.  call and ret
   hold one entry per request. *)

InFlight(op, payload) ==
    [op |-> op, payload |-> payload, pc |-> "issued", response |-> NoVector]

ConcurrentRequests ==
    {InFlight("forecast", payload) : payload \in SessionForecastRequests}
    \cup {InFlight("plan", payload) :
            payload \in [forecast_id : IssuedUuids \cup {Missing},
                         objective : {"service_level"},
                         constraints : {InventoryConstraints(Rat(95, 100), 10)},
                         location : {None}]}
    \cup {InFlight("scenario", ScenarioRequest(f, p, <<>>)) :
            f \in IssuedUuids, p \in IssuedUuids \cup {None}}

InitConcurrent ==
    /\ sales \in SalesTables
    /\ lib = UniformLib(Ok(8), Ok(9))
    /\ call = <<>>
    /\ ret = <<>>
    /\ EmptyStore

Issue ==
    /\ Len(call) < MaxRequests
    /\ \E request \in ConcurrentRequests :
            /\ call' = Append(call, request)
            /\ ret' = Append(ret, NotCalled)
    /\ NothingStored

Built(i, response) ==
    /\ call' = [call EXCEPT ![i].pc = "built", ![i].response = Some(response)]
    /\ uuids' = uuids + 1
    /\ UNCHANGED <<sales, lib, forecasts, plans, scenarios, ret>>

Raised(i, code) ==
    /\ call' = [call EXCEPT ![i].pc = "returned"]
    /\ ret' = [ret EXCEPT ![i] = HTTPException(code)]
    /\ NothingStored

\* forecasting_service.py lines 16-23
BuildForecast(i) ==
    /\ call[i].op = "forecast" /\ call[i].pc = "issued"
    /\ \E r \in {generate_ensemble_forecast(call[i].payload)} :
            Built(i, ForecastResponse(NextUuid, r))

\* planning_service.py lines 12-32
BuildPlan(i) ==
    /\ call[i].op = "plan" /\ call[i].pc = "issued"
    /\ IF ~DictHas(forecasts, call[i].payload.forecast_id) THEN Raised(i, 404)
       ELSE \E r \in {generate_supply_plan(
                        DictGet(forecasts, call[i].payload.forecast_id).points,
                        call[i].payload.constraints, call[i].payload.location)} :
                Built(i, PlanResponse(NextUuid, call[i].payload.forecast_id, r))

\* scenario_service.py lines 18-89
BuildScenario(i) ==
    /\ call[i].op = "scenario" /\ call[i].pc = "issued"
    /\ \E plan \in {BasePlan(call[i].payload)} :
            IF plan = NoVector
            THEN Raised(i, IF Truthy(call[i].payload.plan_id) THEN 404 ELSE 400)
            ELSE Built(i, ScenarioFor(NextUuid, call[i].payload, plan[1]))

ArtifactId(op, response) ==
    IF op = "forecast" THEN response.forecast_id
    ELSE IF op = "plan" THEN response.plan_id
    ELSE response.scenario_id

RegisterIn_Rebuilt(artifacts, id, response) == << <<id, response>> >>

\* store.forecasts[forecast_id] = response, and the like
RegisterIn(artifacts, id, response) == DictSet(artifacts, id, response)

RegisterAs(op, artifacts, request) ==
    IF request.op = op
    THEN RegisterIn(artifacts, ArtifactId(op, request.response[1]), request.response[1])
    ELSE artifacts

Register(i) ==
    /\ call[i].pc = "built"
    /\ forecasts' = RegisterAs("forecast", forecasts, call[i])
    /\ plans' = RegisterAs("plan", plans, call[i])
    /\ scenarios' = RegisterAs("scenario", scenarios, call[i])
    /\ call' = [call EXCEPT ![i].pc = "registered"]
    /\ UNCHANGED <<sales, lib, uuids, ret>>

Return(i) ==
    /\ call[i].pc = "registered"
    /\ call' = [call EXCEPT ![i].pc = "returned"]
    /\ ret' = [ret EXCEPT ![i] = Returned(call[i].response[1])]
    /\ NothingStored

NextConcurrent ==
    \/ Issue
    \/ \E i \in 1..Len(call) :
        \/ BuildForecast(i)
        \/ BuildPlan(i)
        \/ BuildScenario(i)
        \/ Register(i)
        \/ Return(i)

SpecConcurrent == InitConcurrent /\ [][NextConcurrent]_vars

-----------------------------------------------------------------------------
(* Properties of generate_ensemble_forecast (SpecForecast) *)

Response == ret.body[1]
Payload == call.payload
RequestedDates == date_range(Payload.start_date, Payload.end_date, Payload.granularity)
Horizon == Len(RequestedDates)
ListedSkus == {Payload.sku_list[k] : k \in 1..Len(Payload.sku_list)}

\* the points the loop appended for the k-th entry of sku_list
Segment(points, k) == SubSeq(points, (k - 1) * Horizon + 1, k * Horizon)

\* C1: for a non-empty sku_list and start_date <= end_date the response holds
\* exactly one point per (sku, date), sku in sku_list and date in the date
\* index: |sku_list| x |date index| points, no (sku, date) pair twice.
C1_OnePointPerSkuDate ==
    (ret.status = 200 /\ Payload.start_date <= Payload.end_date) =>
        LET points == Response.points
        IN  /\ Len(points) = Len(Payload.sku_list) * Horizon
            /\ \A i \in 1..Len(points) :
                    /\ points[i].sku \in ListedSkus
                    /\ \E d \in 1..Horizon : RequestedDates[d] = points[i].date
            /\ \A sku \in ListedSkus : \A d \in 1..Horizon :
                    \E i \in 1..Len(points) :
                        points[i].sku = sku /\ points[i].date = RequestedDates[d]
            /\ \A i, j \in 1..Len(points) :
                    (points[i].sku = points[j].sku /\ points[i].date = points[j].date)
                        => i = j

\* C2: every point of every stored forecast has mean >= 0, q50 = mean,
\* q10 = 0.8 * mean, q90 = 1.2 * mean, hence q10 <= q50 <= q90.
C2_QuantileBand ==
    \A f \in 1..Len(forecasts) :
        LET points == forecasts[f][2].points
        IN  \A i \in 1..Len(points) :
                LET p == points[i]
                IN  /\ p.mean.n >= 0 /\ p.mean.d > 0
                    /\ p.q50 = p.mean
                    /\ RMul(RInt(10), p.q10) = RMul(RInt(8), p.mean)
                    /\ RMul(RInt(10), p.q90) = RMul(RInt(12), p.mean)
                    /\ RLe(p.q10, p.q50) /\ RLe(p.q50, p.q90)

\* a stored forecast holds positive points of a fitted strategy, a point a
\* strategy floored at 0, and points of the stub
C2_Witness ==
    \E f \in 1..Len(forecasts) :
        LET a == forecasts[f][2]
        IN  /\ \E sku \in DOMAIN a.metadata.per_sku_model :
                    /\ a.metadata.per_sku_model[sku] = "stub"
                    /\ \E i \in 1..Len(a.points) :
                            a.points[i].sku = sku /\ a.points[i].mean.n > 0
            /\ \E sku \in DOMAIN a.metadata.per_sku_model :
                    /\ a.metadata.per_sku_model[sku] \in Strategies
                    /\ lib.fin.arima.level < 0
                    /\ \E i \in 1..Len(a.points) :
                            a.points[i].sku = sku /\ a.points[i].mean.n = 0

\* C3: a SKU whose history has fewer than 4 points is reported as 'stub'
\* whatever forced_model is, its points are the stub forecast of its history
\* (no fitted strategy contributes), and it has no metric but chosen_model.
ShortHistory(sku) == Len(prepare_history(sku, Payload.location)) < 4

C3_ShortHistoryIsStub ==
    ret.status = 200 =>
        \A k \in 1..Len(Payload.sku_list) :
            LET sku == Payload.sku_list[k]
                history == prepare_history(sku, Payload.location)
                stub == generate_stub_forecast(StubBase(history), Horizon)
                seg == Segment(Response.points, k)
            IN  ShortHistory(sku) =>
                    /\ Response.metadata.per_sku_model[sku] = "stub"
                    /\ \A key \in DOMAIN Response.metrics :
                            key[1] = sku => key[2] = "chosen_model"
                    /\ Len(seg) = Horizon
                    /\ \A i \in 1..Horizon : seg[i].sku = sku /\ seg[i].mean = stub[i]

\* a short, non-empty history forced to a fitted strategy, with a horizon
C3_Witness ==
    /\ ret.status = 200
    /\ Payload.forced_model = "arima"
    /\ Horizon > 0
    /\ \E k \in 1..Len(Payload.sku_list) :
            /\ ShortHistory(Payload.sku_list[k])
            /\ prepare_history(Payload.sku_list[k], Payload.location) # <<>>
    /\ \E k \in 1..Len(Payload.sku_list) : ~ShortHistory(Payload.sku_list[k])

C13_EmptyHistoryIsStub ==
    ret.status = 200 =>
        \A k \in 1..Len(Payload.sku_list) :
            LET sku == Payload.sku_list[k]
                seg == Segment(Response.points, k)
            IN  prepare_history(sku, Payload.location) = <<>> =>
                    /\ Len(seg) = Horizon
                    /\ \A i \in 1..Horizon :
                            /\ seg[i].sku = sku
                            /\ seg[i].date = RequestedDates[i]
                            /\ seg[i].mean = StubValue(RInt(100), Horizon, i)
                    /\ Response.metadata.per_sku_model[sku] = "stub"
                    /\ \A key \in DOMAIN Response.metrics :
                            key[1] = sku =>
                                /\ key[2] = "chosen_model"
                                /\ Response.metrics[key] = RInt(0)

\* a forced strategy whose fits would succeed, a SKU without rows
C13_Witness ==
    /\ ret.status = 200
    /\ Horizon > 0
    /\ Payload.forced_model = "arima"
    /\ lib.val.arima.ok /\ lib.fin.arima.ok
    /\ \E k \in 1..Len(Payload.sku_list) :
            /\ prepare_history(Payload.sku_list[k], Payload.location) = <<>>
            /\ Segment(Response.points, k)[1].mean # RInt(0)

\* the code a model name is recorded under
CodeOf(name) ==
    IF name = "stub" THEN 0 ELSE IF name = "arima" THEN 1
    ELSE IF name = "prophet" THEN 2 ELSE IF name = "xgboost" THEN 3 ELSE -1

\* C27: for every SKU of the request the metrics hold '{sku}.chosen_model',
\* the code of metadata.per_sku_model[sku]; the SKU's validation metrics are
\* there under '{sku}.{name}', and every key of the metrics belongs to a SKU
\* of the request.  A key '{sku}.{name}' is the pair of its two parts.
C27_ChosenModelCode ==
    ret.status = 200 =>
        /\ DOMAIN Response.metadata.per_sku_model = ListedSkus
        /\ \A key \in DOMAIN Response.metrics : key[1] \in ListedSkus
        /\ \A sku \in ListedSkus :
                LET validated == SelectionFor(prepare_history(sku, Payload.location),
                                              RequestedDates, Payload.forced_model).metrics
                IN  /\ <<sku, "chosen_model">> \in DOMAIN Response.metrics
                    /\ Response.metrics[<<sku, "chosen_model">>]
                            = RInt(CodeOf(Response.metadata.per_sku_model[sku]))
                    /\ {key[2] : key \in {x \in DOMAIN Response.metrics : x[1] = sku}}
                            = DOMAIN validated \cup {"chosen_model"}
                    /\ \A name \in DOMAIN validated :
                            Response.metrics[<<sku, name>>] = validated[name]

\* a stub SKU and an arima SKU in one request, the second with its MAPE
C27_Witness ==
    /\ ret.status = 200
    /\ Len(Payload.sku_list) = 2
    /\ Response.metadata.per_sku_model[Payload.sku_list[1]] = "stub"
    /\ Response.metadata.per_sku_model[Payload.sku_list[2]] = "arima"
    /\ Response.metrics[<<Payload.sku_list[1], "chosen_model">>] = RInt(0)
    /\ Response.metrics[<<Payload.sku_list[2], "chosen_model">>] = RInt(1)
    /\ <<Payload.sku_list[2], "arima_mape">> \in DOMAIN Response.metrics

\* the response to the same request with sku as its only SKU
Alone(sku) == generate_ensemble_forecast([Payload EXCEPT !.sku_list = <<sku>>])

MetricsOf(metrics, sku) == {<<key[2], metrics[key]>> : key \in {x \in DOMAIN metrics : x[1] = sku}}

\* C28: the points, the chosen model and the metrics a SKU gets in a request
\* are those it gets in the request that lists it alone, with the same
\* dates, granularity, location and forced_model, wherever it stands in
\* sku_list and whatever the other SKUs are.
C28_NoCrossSku ==
    ret.status = 200 =>
        \A k \in 1..Len(Payload.sku_list) :
            \A alone \in {Alone(Payload.sku_list[k])} :
                LET sku == Payload.sku_list[k]
                IN  /\ Segment(Response.points, k) = alone.points
                    /\ Response.metadata.per_sku_model[sku]
                            = alone.metadata.per_sku_model[sku]
                    /\ MetricsOf(Response.metrics, sku) = MetricsOf(alone.metrics, sku)

\* a fitted SKU listed before a stub SKU
C28_Witness ==
    /\ ret.status = 200
    /\ Len(Payload.sku_list) = 2
    /\ Horizon > 0
    /\ Response.metadata.per_sku_model[Payload.sku_list[1]] = "prophet"
    /\ Response.metadata.per_sku_model[Payload.sku_list[2]] = "stub"
    /\ Segment(Response.points, 1)[1].mean # Segment(Response.points, 2)[1].mean

-----------------------------------------------------------------------------
(* Properties of the forecast request taken SKU by SKU (SpecLoop) *)

\* C26: the store changes in one step only, taken when every SKU of sku_list
\* has been through the loop: that step adds one forecast, the response
\* returned, holding the points of all the SKUs; a step of the loop and a
\* failing request leave the store as it was.
C26_SingleWrite ==
    [][ /\ <<forecasts, plans, scenarios>>' # <<forecasts, plans, scenarios>> =>
            /\ call.k = Len(Payload.sku_list)
            /\ forecasts = <<>>
            /\ plans' = plans /\ scenarios' = scenarios
            /\ ret'.status = 200
            /\ forecasts' = << <<ret'.body[1].forecast_id, ret'.body[1]>> >>
            /\ ret'.body[1].points = generate_ensemble_forecast(Payload).points
            /\ ret'.body[1].metrics = generate_ensemble_forecast(Payload).metrics
            /\ Len(ret'.body[1].points) = Len(Payload.sku_list) * Horizon
            /\ \A k \in 1..Len(Payload.sku_list) :
                    \A p \in {Segment(ret'.body[1].points, k)[i] : i \in 1..Horizon} :
                        p.sku = Payload.sku_list[k]
        /\ ret'.status = 500 => forecasts' = <<>>
        /\ ret'.status = 200 => Len(forecasts') = 1
      ]_vars

\* a request for two SKUs returned: one forecast stored, with both SKUs' points
C26_Witness ==
    /\ call.op = "forecast_loop"
    /\ ret.status = 200
    /\ call.k = 2
    /\ Horizon = 2
    /\ Len(forecasts) = 1
    /\ Len(forecasts[1][2].points) = 4

\* a request failed at its second SKU: nothing stored
C26_WitnessFailed ==
    /\ call.op = "forecast_loop"
    /\ ret.status = 500
    /\ call.k = 1
    /\ call.acc.points # <<>>
    /\ forecasts = <<>>

-----------------------------------------------------------------------------
(* Properties of _prepare_history (SpecHistory) *)

SkuRows == {i \in 1..Len(sales) : sales[i].sku = call.sku}
LocationRows == {i \in SkuRows : sales[i].location = call.location}
UsedRows ==
    IF call.location # None /\ LocationRows # {} THEN LocationRows ELSE SkuRows

RECURSIVE QuantityOver(_)
QuantityOver(rows) ==
    IF rows = {} THEN 0
    ELSE LET i == CHOOSE j \in rows : TRUE
         IN  sales[i].quantity + QuantityOver(rows \ {i})

History == ret.body[1]

\* C12: with a location that some row of the SKU has, the history is built
\* from the rows of that location only; with a location no row of the SKU
\* has (or with none), from all rows of the SKU: one entry per date of those
\* rows, in date order, holding the summed quantity.  A SKU with rows never
\* gets an empty history.
C12_LocationFilter ==
    ret.status = 200 =>
        /\ Len(History) = Cardinality({sales[i].date : i \in UsedRows})
        /\ \A k \in 1..Len(History) :
                /\ k > 1 => History[k - 1].date < History[k].date
                /\ History[k].value =
                        RInt(QuantityOver({i \in UsedRows :
                                            sales[i].date = History[k].date}))
                /\ \E i \in UsedRows : sales[i].date = History[k].date
        /\ SkuRows # {} => History # <<>>

Reversed(seq) == [k \in 1..Len(seq) |-> seq[Len(seq) + 1 - k]]
SelectedRows == [k \in 1..Len(SortedSeq(UsedRows)) |-> sales[SortedSeq(UsedRows)[k]]]

\* C22: the history holds the distinct dates of the selected rows, each once
\* and in strictly increasing order, each with the summed quantity of the
\* selected rows of that date; the selected rows taken in the opposite order
\* give the same history.
C22_OneEntryPerDate ==
    ret.status = 200 =>
        /\ DOMAIN History = 1..Cardinality({sales[i].date : i \in UsedRows})
        /\ {History[k].date : k \in DOMAIN History} = {sales[i].date : i \in UsedRows}
        /\ \A j, k \in DOMAIN History : j < k => History[j].date < History[k].date
        /\ \A k \in DOMAIN History :
                History[k].value =
                    RInt(QuantityOver({i \in UsedRows : sales[i].date = History[k].date}))
        /\ UsedRows # {} => History = GroupByDateSum(Reversed(SelectedRows))

\* three rows of one SKU, out of date order, two of them on the same date
C22_Witness ==
    /\ ret.status = 200
    /\ UsedRows = {1, 2, 3}
    /\ sales[1].date > sales[2].date
    /\ sales[3].date = sales[1].date
    /\ Len(History) = 2
    /\ History[2].value = RInt(sales[1].quantity + sales[3].quantity)

\* a location no row of the SKU has, a SKU with rows at two locations
C12_Witness ==
    /\ ret.status = 200
    /\ call.location = "WH-9"
    /\ \E i, j \in SkuRows : sales[i].location # sales[j].location
    /\ Len(History) = 2

\* a location some rows of the SKU have and others do not
C12_WitnessFiltered ==
    /\ ret.status = 200
    /\ LocationRows # {} /\ LocationRows # SkuRows
    /\ History # <<>>

-----------------------------------------------------------------------------
(* Properties of _generate_stub_forecast (SpecStub) *)

C15_WitnessFloored ==
    /\ call.op = "stub"
    /\ Len(ret.body) = 2
    /\ call.horizon = MaxHorizon
    /\ call.base.n < 0
    /\ \A i \in 1..MaxHorizon : ret.body[2][i] = RInt(0)

-----------------------------------------------------------------------------
(* Properties of _forecast_arima, _forecast_prophet, _forecast_xgb
   (SpecStrategy) *)

Ran == ret.body[1]

\* the history length below which a strategy does not run
MinHistory(name) == IF name = "xgboost" THEN 6 ELSE 4

\* C21: arima and prophet return nothing for a history shorter than 4, xgboost
\* for one shorter than 6, and all three for an empty horizon; a vector that
\* is returned has one entry >= 0 per requested step; the unforced selector
\* on a history of 4 points returns the stub.
C21_Applicability ==
    (call.op = "strategy" /\ ret.status = 200) =>
        LET horizon == Len(call.horizon_dates)
        IN  /\ Ran.name \in Strategies =>
                    /\ (Len(call.series) < MinHistory(Ran.name) \/ horizon <= 0)
                            => Ran.fc = NoVector
                    /\ Ran.fc # NoVector =>
                            /\ Len(Ran.fc[1]) = horizon
                            /\ \A i \in 1..horizon : RLe(RInt(0), Ran.fc[1][i])
            /\ (Ran.name = "select" /\ Len(call.series) = 4) =>
                    /\ Ran.chosen = "stub"
                    /\ Ran.fc = Some(generate_stub_forecast(StubBase(call.series),
                                                            horizon))

\* xgboost declines a history of 5 points that arima would take
C21_Witness ==
    /\ call.op = "strategy" /\ ret.status = 200
    /\ Ran.name = "xgboost"
    /\ Len(call.series) = 5
    /\ Len(call.horizon_dates) = 2
    /\ lib.fin.xgboost.ok
    /\ Ran.fc = NoVector

\* the unforced selector on 4 points, with every fit ready to succeed
C21_WitnessFourPoints ==
    /\ call.op = "strategy" /\ ret.status = 200
    /\ Ran.name = "select"
    /\ Len(call.series) = 4
    /\ Len(call.horizon_dates) = 2
    /\ lib.val.arima.ok /\ lib.fin.arima.ok
    /\ Ran.chosen = "stub"

-----------------------------------------------------------------------------
(* Properties of _select_model_and_forecast (SpecSelect) *)

Selected == ret.body[1]

Unforced == call.forced_model \notin Strategies \cup {"stub"}
Validated == Len(call.series) >= 4 /\ Len(call.horizon_dates) > 0

MapeKey(name) == IF name = "xgboost" THEN "xgb_mape" ELSE name \o "_mape"
MaeKey(name) == IF name = "xgboost" THEN "xgb_mae" ELSE name \o "_mae"
Priority(name) ==
    CASE name = "arima" -> 1 [] name = "prophet" -> 2 [] name = "xgboost" -> 3

\* the strategies with a validation MAPE, and those whose MAPE is finite
Scored == {name \in Strategies : MapeKey(name) \in DOMAIN Selected.metrics}
FiniteScored == {name \in Scored : ~IsInf(Selected.metrics[MapeKey(name)])}

\* lowest MAPE first, then priority order
Beats(a, b) ==
    \/ RLt(Selected.metrics[MapeKey(a)], Selected.metrics[MapeKey(b)])
    \/ /\ Selected.metrics[MapeKey(a)] = Selected.metrics[MapeKey(b)]
       /\ Priority(a) <= Priority(b)

Winner == CHOOSE w \in FiniteScored : \A o \in FiniteScored : Beats(w, o)

\* the winner's run on the whole history for the requested dates
WinnerRun == forecast_with_name(Winner, call.series, call.horizon_dates).fc

\* C16: without a forced strategy, when some strategy has a finite validation
\* MAPE, the strategy selected is the one of lowest MAPE among those with a
\* finite MAPE, the first of them in the order arima, prophet, xgboost on a
\* tie: it is the chosen model with its own forecast, unless its run on the
\* whole history returns nothing.
C16_LowestMapeWins ==
    (ret.status = 200 /\ call.op = "select" /\ Unforced /\ Validated
        /\ FiniteScored # {}) =>
        /\ Selected.chosen \in {Winner, "stub"}
        /\ WinnerRun # NoVector =>
                Selected.chosen = Winner /\ Selected.fc = WinnerRun[1]

\* prophet chosen over arima by a lower MAPE and over xgboost on a tie
C16_Witness ==
    /\ ret.status = 200 /\ call.op = "select" /\ Unforced /\ Validated
    /\ Scored = Strategies
    /\ FiniteScored = Strategies
    /\ RLt(Selected.metrics["prophet_mape"], Selected.metrics["arima_mape"])
    /\ Selected.metrics["prophet_mape"] = Selected.metrics["xgb_mape"]
    /\ Selected.chosen = "prophet"

\* C17: without a forced strategy, when no strategy has a finite validation
\* MAPE (none was scored, or every MAPE is infinite), the chosen model is
\* 'stub' and the forecast is the stub forecast.
C17_NoUsableMetricIsStub ==
    (ret.status = 200 /\ call.op = "select" /\ Unforced /\ FiniteScored = {}) =>
        /\ Selected.chosen = "stub"
        /\ Selected.fc = generate_stub_forecast(StubBase(call.series),
                                                Len(call.horizon_dates))

\* every scored strategy has an infinite MAPE and arima is the chosen model
C17_InfiniteMapeChosen ==
    /\ ret.status = 200 /\ call.op = "select" /\ Unforced /\ Validated
    /\ Scored # {} /\ FiniteScored = {}
    /\ Selected.chosen = "arima"

\* the split of the call's history at lines 167-169
SplitAt == Len(call.series) - NVal(call.series)
TrainingPrefix == SubSeq(call.series, 1, SplitAt)
HeldOut == SubSeq(call.series, SplitAt + 1, Len(call.series))
DatesOf(series) == {series[k].date : k \in 1..Len(series)}

\* C18: for a history of L >= 4 points the last min(3, max(1, L div 4))
\* points are held out and the rest is the training prefix; the dates every
\* strategy is asked to predict in validation are the dates of the held-out
\* points, none of them a date of the training prefix.
C18_ValidationWindow ==
    (ret.status = 200 /\ call.op = "select" /\ Validated) =>
        LET L == Len(call.series)
            q == IF L \div 4 > 1 THEN L \div 4 ELSE 1
            n_val == IF q < 3 THEN q ELSE 3
            asked == ProphetValDates(TrainingPrefix, NVal(call.series))
        IN  /\ NVal(call.series) = n_val
            /\ Len(HeldOut) = n_val
            /\ TrainingPrefix \o HeldOut = call.series
            /\ Len(asked) = n_val
            /\ \A k \in 1..n_val :
                    /\ asked[k] = HeldOut[k].date
                    /\ asked[k] \notin DatesOf(TrainingPrefix)

\* prophet scored in validation on a date of its own training prefix
C18_ProphetAskedTrainingDate ==
    /\ ret.status = 200 /\ call.op = "select" /\ Validated
    /\ "prophet_mape" \in DOMAIN Selected.metrics
    /\ ProphetValDates(TrainingPrefix, NVal(call.series))[1]
            \in DatesOf(TrainingPrefix)

\* a strategy's run on the training prefix for the validation window
ValRun(name) ==
    CASE name = "arima" ->
            forecast_arima(TrainingPrefix, NVal(call.series), "val")
      [] name = "prophet" ->
            forecast_prophet(TrainingPrefix,
                             ProphetValDates(TrainingPrefix, NVal(call.series)), "val")
      [] name = "xgboost" ->
            forecast_xgb(TrainingPrefix, NVal(call.series), "val")

\* the strategies whose validation run succeeded, and their MAPE
Succeeded == {name \in Strategies : ValRun(name) # NoVector}
ValMape(name) == compute_mape(Values(HeldOut), ValRun(name)[1])

\* the succeeded strategy of lowest finite MAPE, priority order on ties
FinalStrategy ==
    CHOOSE w \in Succeeded :
        /\ ~IsInf(ValMape(w))
        /\ \A o \in Succeeded :
                \/ RLt(ValMape(w), ValMape(o))
                \/ ValMape(w) = ValMape(o) /\ Priority(w) <= Priority(o)

FinalRun == forecast_with_name(FinalStrategy, call.series, call.horizon_dates).fc

\* C19: without a forced strategy, the forecast returned is the winner's run
\* on the whole history over the requested dates; when that run returns
\* nothing, the forecast is the stub forecast, the chosen model is 'stub',
\* and the returned metrics hold the MAPE and MAE of exactly the strategies
\* whose validation run succeeded.
C19_FinalRunFallback ==
    (ret.status = 200 /\ call.op = "select" /\ Unforced /\ Validated
        /\ \E name \in Succeeded : ~IsInf(ValMape(name))) =>
        /\ DOMAIN Selected.metrics =
                {MapeKey(name) : name \in Succeeded}
                    \cup {MaeKey(name) : name \in Succeeded}
        /\ \A name \in Succeeded :
                /\ Selected.metrics[MapeKey(name)] = ValMape(name)
                /\ Selected.metrics[MaeKey(name)]
                        = compute_mae(Values(HeldOut), ValRun(name)[1])
        /\ IF FinalRun = NoVector
           THEN /\ Selected.chosen = "stub"
                /\ Selected.fc = generate_stub_forecast(StubBase(call.series),
                                                        Len(call.horizon_dates))
           ELSE /\ Selected.chosen = FinalStrategy
                /\ Selected.fc = FinalRun[1]
                /\ Len(Selected.fc) = Len(call.horizon_dates)

\* two strategies scored in validation, the winner's fit on the whole
\* history raises
C19_Witness ==
    /\ ret.status = 200 /\ call.op = "select" /\ Unforced /\ Validated
    /\ Cardinality(Succeeded) >= 2
    /\ \E name \in Succeeded : ~IsInf(ValMape(name))
    /\ ~lib.fin[FinalStrategy].ok
    /\ Selected.chosen = "stub"
    /\ MapeKey(FinalStrategy) \in DOMAIN Selected.metrics

\* the forced strategy's run on the whole history
ForcedRun == forecast_with_name(call.forced_model, call.series, call.horizon_dates).fc

\* C20: when the forced strategy returns no vector on the whole history and
\* the stub is used, the returned metrics hold neither a MAPE nor an MAE of
\* the forced strategy.
C20_NoMetricsOfForced ==
    (ret.status = 200 /\ call.op = "select" /\ call.forced_model \in Strategies
        /\ ForcedRun = NoVector) =>
        /\ Selected.chosen = "stub"
        /\ MapeKey(call.forced_model) \notin DOMAIN Selected.metrics
        /\ MaeKey(call.forced_model) \notin DOMAIN Selected.metrics

\* the stub stands in for forced arima, whose validation metrics are returned
C20_ForcedMetricsKept ==
    /\ ret.status = 200 /\ call.op = "select" /\ call.forced_model = "arima"
    /\ ForcedRun = NoVector
    /\ Selected.chosen = "stub"
    /\ "arima_mape" \in DOMAIN Selected.metrics

\* C4: a forced strategy that returns no vector on the whole history yields
\* chosen model 'stub' with the stub forecast of full horizon length, and no
\* error; a forced strategy that does return a vector is the chosen model.
C4_ForcedFallback ==
    (ret.status # 0 /\ call.forced_model \in Strategies \cup {"stub"}) =>
        LET horizon == Len(call.horizon_dates)
            full == forecast_with_name(call.forced_model, call.series,
                                       call.horizon_dates).fc
        IN  /\ ret.status = 200
            /\ Len(Selected.fc) = horizon
            /\ IF full = NoVector
               THEN /\ Selected.chosen = "stub"
                    /\ Selected.fc =
                         generate_stub_forecast(StubBase(call.series), horizon)
               ELSE /\ Selected.chosen = call.forced_model
                    /\ Selected.fc = full[1]

\* xgboost forced on a history the validation could score, but whose fit on
\* the whole history raised
C4_Witness ==
    /\ ret.status = 200
    /\ call.forced_model = "xgboost"
    /\ Len(call.series) >= 6
    /\ Len(call.horizon_dates) > 0
    /\ ~lib.fin.xgboost.ok
    /\ Selected.chosen = "stub"
    /\ DOMAIN Selected.metrics # {}

-----------------------------------------------------------------------------
(* Properties of generate_supply_plan (SpecPlan) *)

PlanCall == call.op = "supply_plan"
Plan == ret.body[1]

PointsOf(points, sku) == SelectSeq(points, LAMBDA p : p.sku = sku)
Means(points) == [i \in 1..Len(points) |-> points[i].mean]
PointSkus(points) == {points[i].sku : i \in 1..Len(points)}

\* total_required of a SKU, from the points and constraints of the call
RequiredOf(sku) ==
    TotalRequired(RSum(Means(PointsOf(call.points, sku))),
                  (MaxDate(call.points) - MinDate(call.points)) + 1,
                  call.constraints)

IsPositive(x) == x.n > 0

\* C5: for every SKU of the forecast with total_required > 0 the plan holds
\* exactly one purchase order and exactly one production recommendation for
\* it; their quantities sum to total_required and stand in the ratio 2 : 3.
C5_SplitPerSku ==
    PlanCall =>
        \A sku \in PointSkus(call.points) :
            IsPositive(RequiredOf(sku)) =>
                LET orders == PointsOf(Plan.orders, sku)
                    production == PointsOf(Plan.production, sku)
                IN  /\ Len(orders) = 1
                    /\ Len(production) = 1
                    /\ orders[1].order_type = "purchase"
                    /\ RAdd(orders[1].quantity, production[1].quantity) = RequiredOf(sku)
                    /\ RMul(orders[1].quantity, RInt(3))
                         = RMul(production[1].quantity, RInt(2))

\* a plan for two SKUs with safety stock on top of the demand
C5_Witness ==
    /\ PlanCall
    /\ call.constraints.lead_time_days > 0
    /\ Len(Plan.orders) = 2
    /\ Len(Plan.production) = 2
    /\ \A sku \in PointSkus(call.points) : IsPositive(RequiredOf(sku))
    /\ MaxDate(call.points) > MinDate(call.points)

\* total_demand + (total_demand / horizon_days) x lead_time_days x z, written
\* out from the points and constraints of the call
DemandOf(sku) == RSum(Means(PointsOf(call.points, sku)))
HorizonDays ==
    (CHOOSE d \in PointDates(call.points) : \A e \in PointDates(call.points) : e <= d)
    - (CHOOSE d \in PointDates(call.points) : \A e \in PointDates(call.points) : d <= e)
    + 1
ZOf(level) == IF level.n * 100 >= 95 * level.d THEN Rat(165, 100) ELSE RInt(1)
SafetyStockOf(sku) ==
    RMul(RMul(RDiv(DemandOf(sku), RInt(HorizonDays)),
              RInt(call.constraints.lead_time_days)),
         ZOf(call.constraints.target_service_level))
DemandPlusSafety(sku) == RAdd(DemandOf(sku), SafetyStockOf(sku))

RECURSIVE DemandPlusSafetyOver(_)
DemandPlusSafetyOver(skus) ==
    IF skus = {} THEN RInt(0)
    ELSE LET sku == CHOOSE x \in skus : TRUE
         IN  RAdd(DemandPlusSafety(sku), DemandPlusSafetyOver(skus \ {sku}))

\* C23: the total_required of every SKU of a plan is its summed forecast
\* means plus (that sum / horizon_days) x lead_time_days x z, horizon_days
\* the span of all points of the artifact and z = 1.65 from a target service
\* level of 0.95 up, 1.0 below: the SKU's order and production quantities
\* are 0.4 and 0.6 of that amount, and Total Volume is its sum over the SKUs.
C23_TotalRequired ==
    (PlanCall /\ call.points # <<>>) =>
        /\ \A sku \in PointSkus(call.points) :
                IsPositive(DemandPlusSafety(sku)) =>
                    /\ PointsOf(Plan.orders, sku)[1].quantity
                            = RMul(DemandPlusSafety(sku), Rat(4, 10))
                    /\ PointsOf(Plan.production, sku)[1].quantity
                            = RMul(DemandPlusSafety(sku), Rat(6, 10))
        /\ Plan.kpis[1].value = DemandPlusSafetyOver(PointSkus(call.points))

\* a target service level of exactly 0.95 with a positive lead time, on a
\* forecast of two dates
C23_Witness ==
    /\ PlanCall /\ call.points # <<>>
    /\ call.constraints.target_service_level = Rat(95, 100)
    /\ call.constraints.lead_time_days > 0
    /\ HorizonDays = 2
    /\ \E sku \in PointSkus(call.points) :
            /\ IsPositive(DemandOf(sku))
            /\ Len(PointsOf(Plan.orders, sku)) = 1

RECURSIVE RequiredOver(_)
RequiredOver(skus) ==
    IF skus = {} THEN RInt(0)
    ELSE LET sku == CHOOSE x \in skus : TRUE
         IN  RAdd(RequiredOf(sku), RequiredOver(skus \ {sku}))

\* C14: a plan for at least one point carries exactly two KPIs, 'Total
\* Volume' with the sum of total_required over the SKUs of the points and
\* 'Target Service Level' with the constraint's value; a plan for no point
\* is returned with empty orders, production and KPIs.
C14_PlanKpis ==
    PlanCall =>
        /\ ret.status = 200
        /\ IF call.points = <<>>
           THEN Plan.orders = <<>> /\ Plan.production = <<>> /\ Plan.kpis = <<>>
           ELSE /\ Len(Plan.kpis) = 2
                /\ Plan.kpis[1].name = "Total Volume"
                /\ Plan.kpis[1].value = RequiredOver(PointSkus(call.points))
                /\ Plan.kpis[2].name = "Target Service Level"
                /\ Plan.kpis[2].value = call.constraints.target_service_level

\* a plan for two SKUs that both require a positive quantity
C14_Witness ==
    /\ PlanCall
    /\ Cardinality(PointSkus(call.points)) = 2
    /\ \A sku \in PointSkus(call.points) : IsPositive(RequiredOf(sku))
    /\ Len(Plan.kpis) = 2
    /\ IsPositive(Plan.kpis[1].value)

\* a plan for a forecast without points
C14_WitnessNoPoints ==
    /\ PlanCall
    /\ call.points = <<>>
    /\ Plan.kpis = <<>>

-----------------------------------------------------------------------------
(* Properties of compute_scenario_kpis (SpecScenario) *)

KpiCall == call.op = "scenario_kpis"
Kpis == ret.body[1]
ShocksOf == call.request.shocks

DemandIdx == {i \in 1..Len(ShocksOf) : ShocksOf[i].type = "demand"}

RECURSIVE FactorTotal(_)
FactorTotal(k) ==
    IF k = 0 THEN RInt(0)
    ELSE IF k \in DemandIdx THEN RAdd(FactorTotal(k - 1), ShocksOf[k].factor)
    ELSE FactorTotal(k - 1)

MeanDemandFactor ==
    IF DemandIdx = {} THEN RInt(1)
    ELSE RDiv(FactorTotal(Len(ShocksOf)), RInt(Cardinality(DemandIdx)))

PlannedVolume ==
    RSum(Quantities(call.plan.orders \o call.plan.production))

\* C6: exactly one KPI, 'Total Volume' in 'units'; base is the sum of all
\* order and production quantities of the plan, scenario is base times the
\* unweighted mean of the factors of the demand shocks (1 when there is
\* none), delta is scenario - base.  Nothing else of the request enters: no
\* demand shock gives delta 0, a single demand shock of 1.2 gives 0.2 x base.
C6_TotalVolumeKpi ==
    KpiCall =>
        /\ Len(Kpis) = 1
        /\ Kpis[1].name = "Total Volume"
        /\ Kpis[1].unit = "units"
        /\ Kpis[1].base = PlannedVolume
        /\ Kpis[1].scenario = RMul(PlannedVolume, MeanDemandFactor)
        /\ Kpis[1].delta = RSub(Kpis[1].scenario, Kpis[1].base)
        /\ DemandIdx = {} => Kpis[1].delta = RInt(0)
        /\ (Cardinality(DemandIdx) = 1 /\ FactorTotal(Len(ShocksOf)) = Rat(6, 5)) =>
                Kpis[1].delta = RMul(PlannedVolume, Rat(1, 5))

\* a demand shock of 1.2 next to a shock of another type that names a SKU, a
\* location and a delta, on a plan with volume
C6_Witness ==
    /\ KpiCall
    /\ IsPositive(PlannedVolume)
    /\ Len(ShocksOf) = 2
    /\ Cardinality(DemandIdx) = 1
    /\ \E i \in DemandIdx : ShocksOf[i].factor = Rat(6, 5)
    /\ \E i \in 1..Len(ShocksOf) :
            /\ ShocksOf[i].type = "supply"
            /\ ShocksOf[i].sku # None
            /\ ShocksOf[i].delta # RInt(0)
    /\ Kpis[1].delta = RMul(PlannedVolume, Rat(1, 5))

-----------------------------------------------------------------------------
(* Properties of the session store (Spec) *)

Stored == <<forecasts, plans, scenarios>>

PlanRequest == call'.op = "plan"
ScenarioWithPlanId == call'.op = "scenario" /\ Truthy(call'.payload.plan_id)
ScenarioWithoutPlanId == call'.op = "scenario" /\ ~Truthy(call'.payload.plan_id)

Referenced(forecast_id) ==
    \E i \in 1..Len(plans) : plans[i][2].forecast_id = forecast_id

LastMatch(forecast_id) ==
    LET matching == SelectSeq(DictValues(plans), LAMBDA c : c.forecast_id = forecast_id)
    IN  matching[Len(matching)]

\* C8: without plan_id the scenario is computed from the most recently
\* registered plan of the forecast; with plan_id, from the plan stored under
\* that id.
C8_MostRecentMatch ==
    (call.op = "scenario" /\ ret.status = 200) =>
        IF Truthy(call.payload.plan_id)
        THEN ret.body[1].plan_id = call.payload.plan_id
        ELSE ret.body[1].plan_id = LastMatch(call.payload.forecast_id).plan_id

Kept(before, after) ==
    /\ \A i \in 1..Len(before) : \E j \in 1..Len(after) : after[j] = before[i]
    /\ \A i, j \in 1..Len(after) : after[i][1] = after[j][1] => i = j

Created == ret'.status = 200 /\ call'.op \in {"forecast", "plan", "scenario"}

AllKeys == DictKeys(forecasts) \cup DictKeys(plans) \cup DictKeys(scenarios)

CreatedId ==
    IF call'.op = "forecast" THEN ret'.body[1].forecast_id
    ELSE IF call'.op = "plan" THEN ret'.body[1].plan_id
    ELSE ret'.body[1].scenario_id

\* C9: every request keeps every registered id registered with the content
\* it had, and a successful create registers its artifact under an id that
\* no store held before.
C9_ArtifactsImmutable ==
    [][ /\ Kept(forecasts, forecasts')
        /\ Kept(plans, plans')
        /\ Kept(scenarios, scenarios')
        /\ Created =>
            /\ CreatedId \notin AllKeys
            /\ <<CreatedId, ret'.body[1]>> \in
                    {forecasts'[i] : i \in 1..Len(forecasts')}
                    \cup {plans'[i] : i \in 1..Len(plans')}
                    \cup {scenarios'[i] : i \in 1..Len(scenarios')}
            /\ Len(forecasts') + Len(plans') + Len(scenarios')
                 = Len(forecasts) + Len(plans) + Len(scenarios) + 1
      ]_vars

\* a read request on a store holding a forecast, a plan and two scenarios
C9_Witness ==
    /\ call.op \in {"copilot", "explain", "list_scenarios", "get_scenario"}
    /\ forecasts # <<>>
    /\ plans # <<>>
    /\ Len(scenarios) >= 2

StoredPlans == {plans[i][2] : i \in 1..Len(plans)}
StoredScenarios == {scenarios[i][2] : i \in 1..Len(scenarios)}

\* C24: every order and every production recommendation of every stored plan
\* has a quantity > 0, and no SKU has more than one of each.
C24_PositiveQuantities ==
    \A plan \in StoredPlans :
        /\ \A k \in 1..Len(plan.orders) : plan.orders[k].quantity.n > 0
        /\ \A k \in 1..Len(plan.production) : plan.production[k].quantity.n > 0
        /\ \A j, k \in 1..Len(plan.orders) :
                plan.orders[j].sku = plan.orders[k].sku => j = k
        /\ \A j, k \in 1..Len(plan.production) :
                plan.production[j].sku = plan.production[k].sku => j = k

\* the store holds a plan whose required quantities were all negative, left
\* without recommendations, next to a plan with recommendations
C24_Witness ==
    /\ \E plan \in StoredPlans :
            /\ plan.orders = <<>> /\ plan.production = <<>>
            /\ Len(plan.kpis) = 2 /\ plan.kpis[1].value.n < 0
    /\ \E plan \in StoredPlans : plan.orders # <<>> /\ plan.production # <<>>

\* C29: every stored plan names a stored forecast, every stored scenario
\* names a stored plan, and the forecast a stored scenario names is the
\* forecast of that plan.
C29_ReferentialConsistency ==
    /\ \A plan \in StoredPlans : DictHas(forecasts, plan.forecast_id)
    /\ \A scenario \in StoredScenarios :
            /\ DictHas(plans, scenario.plan_id)
            /\ scenario.forecast_id = DictGet(plans, scenario.plan_id).forecast_id

\* a stored scenario whose forecast_id is no stored forecast's
C29_ScenarioOfUnknownForecast ==
    \E scenario \in StoredScenarios :
        /\ ~DictHas(forecasts, scenario.forecast_id)
        /\ DictHas(plans, scenario.plan_id)

-----------------------------------------------------------------------------
(* Properties of the scenario narrative (SpecNarrative) *)

ScenarioDone == call.op = "scenario" /\ ret.status = 200

RECURSIVE AppliedFactors(_, _)
AppliedFactors(shocks, k) ==
    IF k = 0 THEN <<>>
    ELSE IF shocks[k].type = "demand"
    THEN Append(AppliedFactors(shocks, k - 1), shocks[k].factor)
    ELSE AppliedFactors(shocks, k - 1)

AverageFactor ==
    LET factors == AppliedFactors(call.payload.shocks, Len(call.payload.shocks))
    IN  IF factors = <<>> THEN RInt(1) ELSE RMean(factors)

\* C25: the first sentence of the narrative names 'increase', 'decrease' or
\* 'no change' by the sign of the Total Volume delta and prints delta / base
\* x 100 to one decimal (0.0 when base = 0); a second sentence, on the
\* average demand factor, is there exactly when that average is not 1; the
\* narrative is never None, the first sentence being always there.
C25_Narrative ==
    ScenarioDone =>
        LET total_kpi == Response.kpis[1]
            narrative == Response.narrative[1]
            pct == IF total_kpi.base.n = 0 THEN RInt(0)
                   ELSE RMul(RDiv(total_kpi.delta, total_kpi.base), RInt(100))
        IN  /\ total_kpi.name = "Total Volume"
            /\ Response.narrative # NoVector
            /\ narrative.parts[1].direction =
                    (IF total_kpi.delta.n > 0 THEN "increase"
                     ELSE IF total_kpi.delta.n < 0 THEN "decrease" ELSE "no change")
            /\ RLe(RAbs(RSub(Rat(narrative.parts[1].pct_change, 10), pct)),
                   Rat(1, 20))
            /\ total_kpi.base.n = 0 => narrative.parts[1].pct_change = 0
            /\ Len(narrative.parts) = (IF AverageFactor = RInt(1) THEN 1 ELSE 2)
            /\ Len(narrative.parts) = 2 =>
                    "avg_demand_factor" \in DOMAIN narrative.parts[2]

\* a decrease by a fifth, reported with the factor sentence
C25_Witness ==
    /\ ScenarioDone
    /\ Response.kpis[1].base.n > 0
    /\ AverageFactor = Rat(4, 5)
    /\ Response.narrative[1].parts[1].direction = "decrease"
    /\ Response.narrative[1].parts[1].pct_change = -200
    /\ Len(Response.narrative[1].parts) = 2

\* a plan without recommendations: base 0, 'no change' and 0.0 percent, yet
\* the factor sentence is there
C25_WitnessZeroBase ==
    /\ ScenarioDone
    /\ Response.kpis[1].base.n = 0
    /\ AverageFactor # RInt(1)
    /\ Response.narrative[1].parts[1].direction = "no change"
    /\ Len(Response.narrative[1].parts) = 2

\* two demand shocks that average to 1: no factor sentence
C25_WitnessAverageOne ==
    /\ ScenarioDone
    /\ Len(call.payload.shocks) = 2
    /\ call.payload.shocks[1].factor # RInt(1)
    /\ AverageFactor = RInt(1)
    /\ Len(Response.narrative[1].parts) = 1

\* the plan a returned scenario was computed from
BasePlanOf(scenario) == DictGet(plans, scenario.plan_id)

\* C30: the base of the Total Volume KPI of a scenario equals the Total
\* Volume KPI of the plan it was run on, whenever that plan has KPIs.
C30_BaseIsPlanVolume ==
    (ScenarioDone /\ BasePlanOf(Response).kpis # <<>>) =>
        /\ BasePlanOf(Response).kpis[1].name = "Total Volume"
        /\ Response.kpis[1].name = "Total Volume"
        /\ Response.kpis[1].base = BasePlanOf(Response).kpis[1].value

\* a scenario with base 0 on a plan whose Total Volume is negative
C30_NegativePlanVolume ==
    /\ ScenarioDone
    /\ BasePlanOf(Response).kpis # <<>>
    /\ BasePlanOf(Response).kpis[1].value.n < 0
    /\ Response.kpis[1].base = RInt(0)

\* a scenario on a plan with recommendations: base and plan volume agree
C30_PositivePlanVolume ==
    /\ ScenarioDone
    /\ BasePlanOf(Response).orders # <<>>
    /\ Response.kpis[1].base = BasePlanOf(Response).kpis[1].value

-----------------------------------------------------------------------------
(* Properties of requests in flight together (SpecConcurrent) *)

StoreOf(op) ==
    IF op = "forecast" THEN forecasts ELSE IF op = "plan" THEN plans ELSE scenarios

Entries(artifacts) == {artifacts[i] : i \in 1..Len(artifacts)}

\* the entry a request's response is registered as
EntryOf(op, response) == <<ArtifactId(op, response), response>>

\* C10: in every interleaving of the steps of forecast, plan and scenario
\* requests, a request that returned successfully has its artifact in the
\* store under its id, and whatever the store holds under an id is the whole
\* response some request built for that id.
C10_RegistrationSerialized ==
    /\ \A i \in 1..Len(ret) :
            ret[i].status = 200 =>
                EntryOf(call[i].op, ret[i].body[1]) \in Entries(StoreOf(call[i].op))
    /\ \A op \in {"forecast", "plan", "scenario"} :
            /\ \A entry \in Entries(StoreOf(op)) :
                    \E i \in 1..Len(call) :
                        /\ call[i].op = op
                        /\ call[i].pc \in {"registered", "returned"}
                        /\ call[i].response = Some(entry[2])
                        /\ entry = EntryOf(op, entry[2])
            /\ \A i, j \in 1..Len(StoreOf(op)) :
                    StoreOf(op)[i][1] = StoreOf(op)[j][1] => i = j

\* a request has returned while another of its kind, which drew its id
\* earlier, has built its response and not yet registered it
C10_Witness ==
    \E i, j \in 1..Len(call) :
        /\ call[i].op = call[j].op
        /\ call[i].pc = "built"
        /\ ret[j].status = 200
        /\ \E m, n \in 1..Len(UuidNames) :
                /\ m < n
                /\ UuidNames[m] = ArtifactId(call[i].op, call[i].response[1])
                /\ UuidNames[n] = ArtifactId(call[j].op, ret[j].body[1])

====
